---- MODULE Spec2Model ----
(***************************************************************************)
(* Verification model of the CFD Trader Assistant signal pipeline:         *)
(* indicator library (app/indicators.py), rule evaluation and signal       *)
(* lifecycle (app/signal_engine.py, app/rules.py), price rounding          *)
(* (app/pricing.py) and the scheduler / backtest call paths.               *)
(*                                                                         *)
(* Numbers.  Python floats are modelled as exact rationals                 *)
(* [k |-> "num", n, d] (value n/d, d > 0); NaN and None are the two other  *)
(* kinds of value.  Bars carry whole-number prices; time is counted in     *)
(* whole minutes.                                                          *)
(***************************************************************************)
EXTENDS Integers, Sequences, FiniteSets, TLC

VARIABLES
    now,            \* wall clock read by datetime.now(), in minutes
    signal_states,  \* SignalEngine.signal_states: symbol -> SignalState
    last_signals,   \* latest Signal returned to the caller per (symbol, side)
    result,         \* what the latest call did and returned
    config,         \* the rules configuration the components were built with
    df,             \* the OHLCV frame handed to the indicator library
    indicators,     \* the dictionary compute_indicators returned for df
    active_signals,     \* SignalManager.active_signals: id -> Signal
    signal_history,     \* SignalManager.signal_history: the signals accepted, in order
    cooldown_periods,   \* SignalManager.cooldown_periods: symbol -> time of the last accepted signal
    active_positions    \* RiskManager.active_positions: position id -> position

\* the state of SignalManager and RiskManager
manager_vars == <<active_signals, signal_history, cooldown_periods, active_positions>>

vars == <<now, signal_states, last_signals, result, config, df, indicators, manager_vars>>

-----------------------------------------------------------------------------
(* Float values: numbers, NaN, None *)

Num(n, d) == [k |-> "num", n |-> n, d |-> d]
V(i) == Num(i, 1)
NaN == [k |-> "nan", n |-> 0, d |-> 1]
None == [k |-> "none", n |-> 0, d |-> 1]

IsNum(v) == v.k = "num"
IsNaN(v) == v.k = "nan"
IsNone(v) == v.k = "none"

\* IEEE comparisons: every comparison with NaN is False
Lt(a, b) == IsNum(a) /\ IsNum(b) /\ a.n * b.d < b.n * a.d
Le(a, b) == IsNum(a) /\ IsNum(b) /\ a.n * b.d <= b.n * a.d
Gt(a, b) == Lt(b, a)
Ge(a, b) == Le(b, a)
Eq(a, b) == IsNum(a) /\ IsNum(b) /\ a.n * b.d = b.n * a.d

RECURSIVE Gcd(_, _)
Gcd(a, b) == IF b = 0 THEN a ELSE Gcd(b, a % b)

\* the number n/d in lowest terms, d > 0
Frac(n, d) ==
    LET g == Gcd(IF n < 0 THEN 0 - n ELSE n, d)
    IN  IF n = 0 THEN Num(0, 1) ELSE Num(n \div g, d \div g)

\* arithmetic; NaN propagates
FAdd(a, b) ==
    IF IsNum(a) /\ IsNum(b)
    THEN LET g == Gcd(a.d, b.d)
         IN  Frac(a.n * (b.d \div g) + b.n * (a.d \div g), (a.d \div g) * b.d)
    ELSE NaN
FNeg(a) == IF IsNum(a) THEN Num(0 - a.n, a.d) ELSE NaN
FSub(a, b) == FAdd(a, FNeg(b))
FScale(a, m) ==
    IF IsNum(a)
    THEN LET g == Gcd(a.d, IF m < 0 THEN 0 - m ELSE m)
         IN  IF m = 0 THEN V(0) ELSE Frac(a.n * (m \div g), a.d \div g)
    ELSE NaN
FDivInt(a, m) ==
    IF IsNum(a)
    THEN LET g == Gcd(IF a.n < 0 THEN 0 - a.n ELSE a.n, m)
         IN  IF a.n = 0 THEN V(0) ELSE Frac(a.n \div g, a.d * (m \div g))
    ELSE NaN
FAbs(a) == IF IsNum(a) THEN Num(IF a.n < 0 THEN 0 - a.n ELSE a.n, a.d) ELSE NaN
\* np.maximum: NaN if either operand is NaN
FMax(a, b) == IF IsNum(a) /\ IsNum(b) THEN (IF Lt(a, b) THEN b ELSE a) ELSE NaN
\* a / b for b > 0
FDiv(a, b) == IF IsNum(a) /\ IsNum(b) /\ b.n > 0 THEN Frac(a.n * b.d, a.d * b.n) ELSE NaN

RECURSIVE Pow(_, _)
Pow(x, e) == IF e = 0 THEN 1 ELSE x * Pow(x, e - 1)

-----------------------------------------------------------------------------
(* pandas Series operations used by app/indicators.py *)

Column(frame, col) == [i \in 1..Len(frame) |-> frame[i][col]]
PriceColumn(frame, col) == [i \in 1..Len(frame) |-> V(frame[i][col])]

\* 'volume' in df.columns and not df['volume'].isna().all()
HasVolume(frame) == \E i \in 1..Len(frame) : ~IsNaN(frame[i].volume)

\* the observations of the window ending at i: NaN entries do not count
WindowObs(series, i, window) ==
    {j \in (IF i > window THEN i - window + 1 ELSE 1)..i : IsNum(series[j])}

RECURSIVE SumRange(_, _, _)
SumRange(series, lo, hi) ==
    IF lo > hi THEN V(0)
    ELSE IF lo = hi THEN (IF IsNum(series[lo]) THEN series[lo] ELSE V(0))
    ELSE LET mid == (lo + hi) \div 2
         IN  FAdd(SumRange(series, lo, mid), SumRange(series, mid + 1, hi))

\* a rolling window that reports a value from its first observation on
RollingMinPeriodsOne(window) == 1

\* min_periods of Series.rolling(window): the whole window must hold numbers
RollingMinPeriods(window) == window

WindowFull(series, i, window) ==
    Cardinality(WindowObs(series, i, window)) >= RollingMinPeriods(window)

\* series.rolling(window=period).mean()
RollingMean(series, window) ==
    [i \in 1..Len(series) |->
        IF WindowFull(series, i, window)
        THEN FDivInt(SumRange(series, IF i > window THEN i - window + 1 ELSE 1, i),
                     Cardinality(WindowObs(series, i, window)))
        ELSE NaN]

\* series.rolling(window=period).max()
RollingMax(series, window) ==
    [i \in 1..Len(series) |->
        IF WindowFull(series, i, window)
        THEN series[CHOOSE j \in WindowObs(series, i, window) :
                        \A m \in WindowObs(series, i, window) : Le(series[m], series[j])]
        ELSE NaN]

\* series.rolling(window=period).min()
RollingMin(series, window) ==
    [i \in 1..Len(series) |->
        IF WindowFull(series, i, window)
        THEN series[CHOOSE j \in WindowObs(series, i, window) :
                        \A m \in WindowObs(series, i, window) : Le(series[j], series[m])]
        ELSE NaN]

\* series.shift(periods): the first entries become NaN, the length is kept
Shift(series, periods) ==
    [i \in 1..Len(series) |-> IF i <= periods THEN NaN ELSE series[i - periods]]

\* series.ewm(span=period).mean() on a series of numbers: adjust=True,
\* min_periods=0, weights (1-alpha)^i with alpha = 2/(span+1)
\* the ratio (span - 1) : (span + 1) of consecutive weights, in lowest terms
EwmDecay(span) == (span - 1) \div Gcd(span + 1, span - 1)
EwmUnit(span) == (span + 1) \div Gcd(span + 1, span - 1)
EwmWeight(span, t, i) == Pow(EwmDecay(span), i) * Pow(EwmUnit(span), t - 1 - i)

RECURSIVE EwmNum(_, _, _, _)
EwmNum(series, span, t, i) ==
    IF i >= t THEN V(0)
    ELSE FAdd(FScale(series[t - i], EwmWeight(span, t, i)), EwmNum(series, span, t, i + 1))

RECURSIVE EwmDen(_, _, _)
EwmDen(span, t, i) ==
    IF i >= t THEN 0 ELSE EwmWeight(span, t, i) + EwmDen(span, t, i + 1)

EwmMean(series, span) ==
    [t \in 1..Len(series) |-> FDivInt(EwmNum(series, span, t, 0), EwmDen(span, t, 0))]

\* series.pct_change(period)
PctChange(series, period) ==
    [i \in 1..Len(series) |->
        IF i <= period THEN NaN
        ELSE FSub(FDiv(series[i], series[i - period]), V(1))]

-----------------------------------------------------------------------------
(* Individual indicator functions, app/indicators.py *)

sma(series, period) == RollingMean(series, period)

ema(series, period) == EwmMean(series, period)

macd_line(series, fast, slow) ==
    LET ema_fast == ema(series, fast)
        ema_slow == ema(series, slow)
    IN  [i \in 1..Len(series) |-> FSub(ema_fast[i], ema_slow[i])]

macd_signal_line(series, fast, slow, signal) == ema(macd_line(series, fast, slow), signal)

macd_histogram(series, fast, slow, signal) ==
    LET line == macd_line(series, fast, slow)
        signal_line == macd_signal_line(series, fast, slow, signal)
    IN  [i \in 1..Len(series) |-> FSub(line[i], signal_line[i])]

roc(series, period) == PctChange(series, period)

true_range(high, low, close) ==
    LET prev_close == Shift(close, 1)
    IN  [i \in 1..Len(high) |->
            FMax(FSub(high[i], low[i]),
                 FMax(FAbs(FSub(high[i], prev_close[i])),
                      FAbs(FSub(low[i], prev_close[i]))))]

atr(high, low, close, period) == RollingMean(true_range(high, low, close), period)

donchian_high(high, period) == RollingMax(high, period)

donchian_low(low, period) == RollingMin(low, period)

donchian_middle(high, low, period) ==
    LET upper == donchian_high(high, period)
        lower == donchian_low(low, period)
    IN  [i \in 1..Len(high) |-> FDivInt(FAdd(upper[i], lower[i]), 2)]

-----------------------------------------------------------------------------
(* compute_indicators, app/indicators.py.  Only the series the rule        *)
(* evaluators read are modelled; the dictionary has no 'close' entry.      *)

EmaFastSpan == 12
EmaSlowSpan == 26
VolumeSmaPeriod == 20

TrendIndicatorNames ==
    {"sma_20", "sma_50", "sma_200", "ema_12", "ema_26", "macd", "macd_signal", "macd_histogram"}
MomentumIndicatorNames == {"roc"}
VolatilityIndicatorNames == {"atr"}
VolumeIndicatorNames == {"volume_sma"}
SupportResistanceIndicatorNames == {"donchian_high", "donchian_low", "donchian_middle"}

compute_trend_indicators(frame, cfg, name) ==
    LET close == PriceColumn(frame, "close") IN
    CASE name = "sma_20" -> sma(close, cfg.sma_fast)
      [] name = "sma_50" -> sma(close, cfg.sma_mid)
      [] name = "sma_200" -> sma(close, cfg.sma_long)
      [] name = "ema_12" -> ema(close, EmaFastSpan)
      [] name = "ema_26" -> ema(close, EmaSlowSpan)
      [] name = "macd" -> macd_line(close, cfg.macd_fast, cfg.macd_slow)
      [] name = "macd_signal" -> macd_signal_line(close, cfg.macd_fast, cfg.macd_slow, cfg.macd_signal)
      [] name = "macd_histogram" -> macd_histogram(close, cfg.macd_fast, cfg.macd_slow, cfg.macd_signal)

compute_momentum_indicators(frame, cfg, name) ==
    roc(PriceColumn(frame, "close"), cfg.roc_lookback)

compute_volatility_indicators(frame, cfg, name) ==
    atr(PriceColumn(frame, "high"), PriceColumn(frame, "low"), PriceColumn(frame, "close"),
        cfg.atr_period)

compute_volume_indicators(frame, cfg, name) ==
    sma(Column(frame, "volume"), VolumeSmaPeriod)

compute_support_resistance_indicators(frame, cfg, name) ==
    LET high == PriceColumn(frame, "high")
        low == PriceColumn(frame, "low") IN
    CASE name = "donchian_high" -> donchian_high(high, cfg.donchian_period)
      [] name = "donchian_low" -> donchian_low(low, cfg.donchian_period)
      [] name = "donchian_middle" -> donchian_middle(high, low, cfg.donchian_period)

IndicatorNames(frame) ==
    TrendIndicatorNames \cup MomentumIndicatorNames \cup VolatilityIndicatorNames
        \cup (IF HasVolume(frame) THEN VolumeIndicatorNames ELSE {})
        \cup SupportResistanceIndicatorNames

EmptyDict == [name \in {} |-> <<>>]

compute_indicators(frame, cfg) ==
    IF Len(frame) = 0 THEN EmptyDict
    ELSE [name \in IndicatorNames(frame) |->
            CASE name \in TrendIndicatorNames -> compute_trend_indicators(frame, cfg, name)
              [] name \in MomentumIndicatorNames -> compute_momentum_indicators(frame, cfg, name)
              [] name \in VolatilityIndicatorNames -> compute_volatility_indicators(frame, cfg, name)
              [] name \in VolumeIndicatorNames -> compute_volume_indicators(frame, cfg, name)
              [] name \in SupportResistanceIndicatorNames ->
                    compute_support_resistance_indicators(frame, cfg, name)]

Abs(i) == IF i < 0 THEN 0 - i ELSE i

\* float(series.iloc[index]); a NaN entry is returned as NaN, not as None
get_indicator_value(inds, name, index) ==
    IF name \notin DOMAIN inds THEN None
    ELSE LET series == inds[name] IN
         IF Len(series) = 0 \/ Len(series) <= Abs(index) THEN None
         ELSE series[IF index < 0 THEN Len(series) + index + 1 ELSE index + 1]


-----------------------------------------------------------------------------
(* Rule evaluators of SignalEngine, app/signal_engine.py *)

Reason(tag, parts) == [tag |-> tag, parts |-> parts]

\* a trend filter that is content with either of its two comparisons
check_trend_either(htf_indicators, side) ==
    LET close_price == get_indicator_value(htf_indicators, "close", -1)
        sma_200 == get_indicator_value(htf_indicators, "sma_200", -1)
        sma_50 == get_indicator_value(htf_indicators, "sma_50", -1)
        sma_20 == get_indicator_value(htf_indicators, "sma_20", -1)
    IN  IF IsNone(close_price) \/ IsNone(sma_200) \/ IsNone(sma_50) \/ IsNone(sma_20)
        THEN <<FALSE, Reason("Missing trend indicator data", {})>>
        ELSE IF side = "LONG"
        THEN <<Gt(close_price, sma_200) \/ Gt(sma_20, sma_50), Reason("Trend(HTF)", {})>>
        ELSE <<Lt(close_price, sma_200) \/ Lt(sma_20, sma_50), Reason("Trend(HTF)", {})>>

check_trend_filter(htf_indicators, side) ==
    LET close_price == get_indicator_value(htf_indicators, "close", -1)
        sma_200 == get_indicator_value(htf_indicators, "sma_200", -1)
        sma_50 == get_indicator_value(htf_indicators, "sma_50", -1)
        sma_20 == get_indicator_value(htf_indicators, "sma_20", -1)
    IN  IF IsNone(close_price) \/ IsNone(sma_200) \/ IsNone(sma_50) \/ IsNone(sma_20)
        THEN <<FALSE, Reason("Missing trend indicator data", {})>>
        ELSE IF side = "LONG"
        THEN IF Gt(close_price, sma_200) /\ Gt(sma_20, sma_50)
             THEN <<TRUE, Reason("Trend(HTF) OK", {})>>
             ELSE <<FALSE, Reason("Trend(HTF) FAIL",
                        (IF Le(close_price, sma_200) THEN {"Close <= SMA200"} ELSE {})
                        \cup (IF Le(sma_20, sma_50) THEN {"SMA20 <= SMA50"} ELSE {}))>>
        ELSE IF side = "SHORT"
        THEN IF Lt(close_price, sma_200) /\ Lt(sma_20, sma_50)
             THEN <<TRUE, Reason("Trend(HTF) OK", {})>>
             ELSE <<FALSE, Reason("Trend(HTF) FAIL",
                        (IF Ge(close_price, sma_200) THEN {"Close >= SMA200"} ELSE {})
                        \cup (IF Ge(sma_20, sma_50) THEN {"SMA20 >= SMA50"} ELSE {}))>>
        ELSE <<FALSE, Reason("Invalid side", {})>>

\* a dictionary handed on as it is
unshifted(htf_indicators) == htf_indicators

\* series.shift(1) applied to every entry of the dictionary
shift_htf_indicators(htf_indicators) ==
    [name \in DOMAIN htf_indicators |-> Shift(htf_indicators[name], 1)]

LastRow(frame) == frame[Len(frame)]

check_donchian_breakout(ltf_data, ltf_indicators, side) ==
    IF Len(ltf_data) = 0 THEN FALSE
    ELSE LET current_high == V(LastRow(ltf_data).high)
             current_low == V(LastRow(ltf_data).low)
             d_high == get_indicator_value(ltf_indicators, "donchian_high", -1)
             d_low == get_indicator_value(ltf_indicators, "donchian_low", -1)
         IN  IF IsNone(d_high) \/ IsNone(d_low) THEN FALSE
             ELSE \/ side = "LONG" /\ Gt(current_high, d_high)
                  \/ side = "SHORT" /\ Lt(current_low, d_low)

check_macd_crossover(ltf_indicators, side) ==
    LET macd == get_indicator_value(ltf_indicators, "macd", -1)
        macd_signal == get_indicator_value(ltf_indicators, "macd_signal", -1)
    IN  IF IsNone(macd) \/ IsNone(macd_signal) THEN FALSE
        ELSE \/ side = "LONG" /\ Gt(macd, macd_signal) /\ Gt(macd, V(0))
             \/ side = "SHORT" /\ Lt(macd, macd_signal) /\ Lt(macd, V(0))

check_roc_momentum(ltf_indicators, cfg, side) ==
    LET r == get_indicator_value(ltf_indicators, "roc", -1)
    IN  IF IsNone(r) THEN FALSE
        ELSE \/ side = "LONG" /\ Ge(r, cfg.roc_min_long)
             \/ side = "SHORT" /\ Le(r, cfg.roc_max_short)

\* any one of the three sub-triggers suffices
check_entry_triggers(ltf_data, ltf_indicators, cfg, side) ==
    \/ check_roc_momentum(ltf_indicators, cfg, side)
    \/ check_donchian_breakout(ltf_data, ltf_indicators, side)
    \/ check_macd_crossover(ltf_indicators, side)

check_volume(ltf_data, ltf_indicators, cfg) ==
    IF ~HasVolume(ltf_data) THEN FALSE
    ELSE LET current_volume == LastRow(ltf_data).volume
             volume_sma == get_indicator_value(ltf_indicators, "volume_sma", -1)
         IN  IF IsNone(volume_sma) \/ Eq(volume_sma, V(0)) THEN FALSE
             ELSE Ge(FDiv(current_volume, volume_sma), cfg.vol_mult)

check_volatility(ltf_data, ltf_indicators, cfg) ==
    LET current_price == V(LastRow(ltf_data).close)
        a == get_indicator_value(ltf_indicators, "atr", -1)
    IN  IF IsNone(a) \/ Eq(current_price, V(0)) THEN FALSE
        ELSE LET atr_pct == FDiv(a, current_price)
             IN  Le(cfg.atr_min_pct, atr_pct) /\ Le(atr_pct, cfg.atr_max_pct)

\* quality_checks collects every check that passed; one entry is enough
check_quality_filter(ltf_data, ltf_indicators, cfg) ==
    \/ check_volume(ltf_data, ltf_indicators, cfg)
    \/ check_volatility(ltf_data, ltf_indicators, cfg)


-----------------------------------------------------------------------------
(* PricingEngine, app/pricing.py *)

\* a rounding that always goes to the next integer above
RoundUp(x) == x.n \div x.d + 1

\* Python round(): nearest integer, ties to the even one
RoundHalfEven(x) ==
    LET fl == x.n \div x.d
        twice == 2 * (x.n - fl * x.d)
    IN  IF twice < x.d THEN fl
        ELSE IF twice > x.d THEN fl + 1
        ELSE IF fl % 2 = 0 THEN fl ELSE fl + 1

\* Python round(x, ndigits)
RoundDigits(x, ndigits) ==
    Frac(RoundHalfEven(Num(x.n * Pow(10, ndigits), x.d)), Pow(10, ndigits))

get_decimal_places(step) ==
    IF Ge(step, V(1)) THEN 0
    ELSE IF Ge(step, Num(1, 10)) THEN 1
    ELSE IF Ge(step, Num(1, 100)) THEN 2
    ELSE IF Ge(step, Num(1, 1000)) THEN 3
    ELSE IF Ge(step, Num(1, 10000)) THEN 4
    ELSE IF Ge(step, Num(1, 100000)) THEN 5
    ELSE 6

\* round(nan) raises ValueError: the caller's except clause turns it into "no signal"
round_price(price, min_step) ==
    IF Le(min_step, V(0)) THEN price
    ELSE IF ~IsNum(price) THEN NaN
    ELSE RoundDigits(FScale(min_step, RoundHalfEven(FDiv(price, min_step))),
                     get_decimal_places(min_step))

MinTicksAway == 5

validate_price_levels(entry, stop_loss, take_profit, min_step) ==
    LET sl_distance == FAbs(FSub(entry, stop_loss))
        tp_distance == FAbs(FSub(take_profit, entry))
        min_distance == FScale(min_step, MinTicksAway)
    IN  IF Lt(sl_distance, min_distance) THEN <<FALSE, "Stop loss too close to entry">>
        ELSE IF Lt(tp_distance, min_distance) THEN <<FALSE, "Take profit too close to entry">>
        ELSE IF Gt(stop_loss, entry) = Gt(take_profit, entry)
             THEN <<FALSE, "Stop loss and take profit must be on opposite sides of entry">>
        ELSE <<TRUE, "Price levels valid">>

-----------------------------------------------------------------------------
(* Signal lifecycle of SignalEngine, app/signal_engine.py *)

NoSignal == [id |-> <<>>]

Signal(symbol, side, t, entry, sl, tp) ==
    [id |-> <<symbol, side, t>>, timestamp |-> t, side |-> side, symbol |-> symbol,
     entry_price |-> entry, stop_loss |-> sl, take_profit |-> tp]

SignalState(signal, cooldown_until) ==
    [last_signal_id |-> signal.id, last_signal_time |-> signal.timestamp,
     last_entry_price |-> signal.entry_price, last_stop_loss |-> signal.stop_loss,
     last_take_profit |-> signal.take_profit, cooldown_until |-> cooldown_until]

\* cooldown state is looked up by symbol alone
is_in_cooldown(states, symbol, t) ==
    IF symbol \notin DOMAIN states THEN FALSE
    ELSE t < states[symbol].cooldown_until

update_signal_state(states, symbol, signal, cfg, t) ==
    [s \in DOMAIN states \cup {symbol} |->
        IF s = symbol THEN SignalState(signal, t + cfg.per_symbol_minutes) ELSE states[s]]

\* macro_guard and not macro_guard.get('allowed', True)
MacroBlocks(macro_guard) ==
    /\ DOMAIN macro_guard # {}
    /\ "allowed" \in DOMAIN macro_guard
    /\ ~macro_guard["allowed"]

StopLoss(side, entry_price, atr_value, cfg) ==
    IF side = "LONG" THEN FSub(entry_price, FDivInt(FScale(atr_value, cfg.stop_atr_mult.n), cfg.stop_atr_mult.d))
    ELSE FAdd(entry_price, FDivInt(FScale(atr_value, cfg.stop_atr_mult.n), cfg.stop_atr_mult.d))

TakeProfit(side, entry_price, stop_loss, cfg) ==
    IF side = "LONG"
    THEN FAdd(entry_price, FDivInt(FScale(FSub(entry_price, stop_loss), cfg.rr_ratio.n), cfg.rr_ratio.d))
    ELSE FSub(entry_price, FDivInt(FScale(FSub(stop_loss, entry_price), cfg.rr_ratio.n), cfg.rr_ratio.d))

Outcome(signal, gate, states) == [signal |-> signal, gate |-> gate, states |-> states]

\* the state written before the levels are validated
update_then_validate(states, t, symbol, side, entry_price, stop_loss, take_profit, min_step, cfg) ==
    LET signal == Signal(symbol, side, t, entry_price, stop_loss, take_profit)
        written == update_signal_state(states, symbol, signal, cfg, t)
    IN  IF ~validate_price_levels(entry_price, stop_loss, take_profit, min_step)[1]
        THEN Outcome(NoSignal, "price_levels", written)
        ELSE Outcome(signal, "emitted", written)

\* the last steps of _check_signal_conditions: validate the rounded levels, build
\* the Signal, record it in signal_states and return it
validate_and_emit(states, t, symbol, side, entry_price, stop_loss, take_profit, min_step, cfg) ==
    IF ~validate_price_levels(entry_price, stop_loss, take_profit, min_step)[1]
    THEN Outcome(NoSignal, "price_levels", states)
    ELSE LET signal == Signal(symbol, side, t, entry_price, stop_loss, take_profit)
         IN  Outcome(signal, "emitted", update_signal_state(states, symbol, signal, cfg, t))

\* SignalEngine._check_signal_conditions: the signal returned (or NoSignal), the
\* return statement that ended the call, and signal_states after the call
check_signal_conditions(states, t, ltf_data, htf_indicators, ltf_indicators, symbol, side, instrument, macro_guard, cfg) ==
    IF ~check_trend_filter(htf_indicators, side)[1] THEN Outcome(NoSignal, "trend", states)
    ELSE IF ~check_entry_triggers(ltf_data, ltf_indicators, cfg, side)
         THEN Outcome(NoSignal, "entry", states)
    ELSE IF ~check_quality_filter(ltf_data, ltf_indicators, cfg)
         THEN Outcome(NoSignal, "quality", states)
    ELSE IF MacroBlocks(macro_guard) THEN Outcome(NoSignal, "macro", states)
    ELSE IF is_in_cooldown(states, symbol, t) THEN Outcome(NoSignal, "cooldown", states)
    ELSE LET close == V(LastRow(ltf_data).close)
             atr_value == get_indicator_value(ltf_indicators, "atr", -1)
         IN  IF IsNone(atr_value) THEN Outcome(NoSignal, "no_atr", states)
             ELSE LET raw_sl == StopLoss(side, close, atr_value, cfg)
                      raw_tp == TakeProfit(side, close, raw_sl, cfg)
                      entry_price == round_price(close, instrument.min_step)
                      stop_loss == round_price(raw_sl, instrument.min_step)
                      take_profit == round_price(raw_tp, instrument.min_step)
                  IN  IF Gt(instrument.min_step, V(0)) /\ (~IsNum(raw_sl) \/ Eq(entry_price, V(0)))
                      THEN Outcome(NoSignal, "exception", states)
                      ELSE validate_and_emit(states, t, symbol, side, entry_price, stop_loss,
                                             take_profit, instrument.min_step, cfg)


IncompleteBarMinutes == 5

\* every bar counted as closed
all_bars(frame, t) == frame

\* SignalEngine._get_closed_bars: a last bar younger than five minutes is dropped
get_closed_bars(frame, t) ==
    IF Len(frame) = 0 THEN frame
    ELSE IF t - LastRow(frame).timestamp < IncompleteBarMinutes
         THEN SubSeq(frame, 1, Len(frame) - 1)
         ELSE frame

MinHtfBars == 200
MinLtfBars == 50

Emitted(outcomes) == SelectSeq(outcomes, LAMBDA o : o.signal # NoSignal)
SignalsOf(outcomes) == [i \in 1..Len(Emitted(outcomes)) |-> Emitted(outcomes)[i].signal]

\* SignalEngine.generate_signals: the list returned and signal_states afterwards
generate_signals(states, t, htf_data, ltf_data, symbol, instrument, macro_guard, cfg) ==
    IF Len(htf_data) = 0 \/ Len(ltf_data) = 0 THEN [signals |-> <<>>, states |-> states]
    ELSE LET htf_closed == get_closed_bars(htf_data, t)
             ltf_closed == get_closed_bars(ltf_data, t)
         IN  IF Len(htf_closed) < MinHtfBars \/ Len(ltf_closed) < MinLtfBars
             THEN [signals |-> <<>>, states |-> states]
             ELSE LET htf_indicators == compute_indicators(htf_closed, cfg)
                      ltf_indicators == compute_indicators(ltf_closed, cfg)
                      htf_indicators_shifted == shift_htf_indicators(htf_indicators)
                      long == check_signal_conditions(states, t, ltf_closed,
                                  htf_indicators_shifted, ltf_indicators,
                                  symbol, "LONG", instrument, macro_guard, cfg)
                      short == check_signal_conditions(long.states, t, ltf_closed,
                                  htf_indicators_shifted, ltf_indicators,
                                  symbol, "SHORT", instrument, macro_guard, cfg)
                  IN  [signals |-> SignalsOf(<<long, short>>), states |-> short.states]

-----------------------------------------------------------------------------
(* SignalGenerator, app/rules.py: the generator the scheduler and the backtest use *)

\* TrendFilter.check_trend, EntryTrigger.check_entry_triggers and
\* QualityFilter.check_quality carry the same statements as the engine's methods
check_trend(indicators_, side) == check_trend_filter(indicators_, side)
check_entry(frame, indicators_, cfg, side) == check_entry_triggers(frame, indicators_, cfg, side)
check_quality(frame, indicators_, cfg) == check_quality_filter(frame, indicators_, cfg)

\* SignalGenerator._check_signal_conditions: macro_guard only feeds the "why" text
generator_check_signal_conditions(t, ltf_df, htf_indicators, ltf_indicators, symbol, side, macro_guard, cfg) ==
    IF ~check_trend(htf_indicators, side)[1] THEN Outcome(NoSignal, "trend", <<>>)
    ELSE IF ~check_entry(ltf_df, ltf_indicators, cfg, side) THEN Outcome(NoSignal, "entry", <<>>)
    ELSE IF ~check_quality(ltf_df, ltf_indicators, cfg) THEN Outcome(NoSignal, "quality", <<>>)
    ELSE LET entry_price == V(LastRow(ltf_df).close)
             atr_value == get_indicator_value(ltf_indicators, "atr", -1)
         IN  IF IsNone(atr_value) THEN Outcome(NoSignal, "no_atr", <<>>)
             ELSE LET stop_loss == StopLoss(side, entry_price, atr_value, cfg)
                      take_profit == TakeProfit(side, entry_price, stop_loss, cfg)
                  IN  Outcome(Signal(symbol, side, t, entry_price, stop_loss, take_profit),
                              "emitted", <<>>)

\* SignalGenerator.generate_signals: no closed-bar filter, no shift
generator_generate_signals(t, htf_df, ltf_df, symbol, macro_guard, cfg) ==
    IF Len(htf_df) = 0 \/ Len(ltf_df) = 0 THEN <<>>
    ELSE LET htf_indicators == compute_indicators(htf_df, cfg)
             ltf_indicators == compute_indicators(ltf_df, cfg)
         IN  SignalsOf(<<generator_check_signal_conditions(t, ltf_df, htf_indicators,
                             ltf_indicators, symbol, "LONG", macro_guard, cfg),
                         generator_check_signal_conditions(t, ltf_df, htf_indicators,
                             ltf_indicators, symbol, "SHORT", macro_guard, cfg)>>)


-----------------------------------------------------------------------------
(* Configuration and inputs *)

\* the values the components fall back to when a key is absent from rules.yaml
DefaultConfig ==
    [sma_fast |-> 20, sma_mid |-> 50, sma_long |-> 200,
     macd_fast |-> 12, macd_slow |-> 26, macd_signal |-> 9,
     roc_lookback |-> 10, donchian_period |-> 20, atr_period |-> 14,
     roc_min_long |-> Num(3, 1000), roc_max_short |-> Num(-3, 1000),
     vol_mult |-> Num(6, 5), atr_min_pct |-> Num(3, 1000), atr_max_pct |-> Num(3, 100),
     stop_atr_mult |-> Num(3, 2), rr_ratio |-> V(2), per_symbol_minutes |-> 30]

\* a rules file with every window set to p (MACD: fast p, slow p + 1, signal p)
SmallConfig(p) ==
    [DefaultConfig EXCEPT !.sma_fast = p, !.sma_mid = p, !.sma_long = p,
                          !.macd_fast = p, !.macd_slow = p + 1, !.macd_signal = p,
                          !.roc_lookback = p, !.donchian_period = p, !.atr_period = p]

Bar(ts, o, h, l, c, v) ==
    [timestamp |-> ts, open |-> o, high |-> h, low |-> l, close |-> c, volume |-> v]

NoResult == [op |-> "none"]

\* SignalManager.__init__ and RiskManager.__init__: nothing active, nothing recorded
IdleManagers ==
    /\ active_signals = EmptyDict
    /\ signal_history = <<>>
    /\ cooldown_periods = EmptyDict
    /\ active_positions = EmptyDict


-----------------------------------------------------------------------------
(* Specification of the indicator library: frames grow bar by bar and      *)
(* compute_indicators is called on them.                                   *)

MaxBars == 3
Prices == {1, 2}
Periods == {1, 2, 3}

IndicatorConfigs == {SmallConfig(p) : p \in Periods}
Volumes == {NaN, V(10)}

\* a feed either reports volume on every bar or on none
FeedVolumes(frame) ==
    IF Len(frame) = 0 THEN Volumes
    ELSE {v \in Volumes : IsNaN(v) = IsNaN(frame[1].volume)}

InitIndicators ==
    /\ now = 0
    /\ signal_states = EmptyDict
    /\ last_signals = EmptyDict
    /\ result = NoResult
    /\ config \in IndicatorConfigs
    /\ df = <<>>
    /\ indicators = EmptyDict
    /\ IdleManagers

NewBar ==
    /\ Len(df) < MaxBars
    /\ \E c \in Prices, spread \in 0..1, v \in FeedVolumes(df) :
          df' = Append(df, Bar(Len(df) + 1, c, c + spread, c - spread, c, v))
    /\ indicators' = EmptyDict
    /\ result' = [op |-> "new_bar"]
    /\ UNCHANGED <<now, signal_states, last_signals, config>>
    /\ UNCHANGED manager_vars

ComputeIndicators ==
    /\ indicators' = compute_indicators(df, config)
    /\ result' = [op |-> "compute_indicators"]
    /\ UNCHANGED <<now, signal_states, last_signals, config, df>>
    /\ UNCHANGED manager_vars

Sides == {"LONG", "SHORT"}

\* _check_donchian_breakout on the frame and the indicators computed from it
DonchianCheck(side) ==
    /\ indicators # EmptyDict
    /\ result' = [op |-> "donchian_breakout", side |-> side,
                  fired |-> check_donchian_breakout(df, indicators, side)]
    /\ UNCHANGED <<now, signal_states, last_signals, config, df, indicators>>
    /\ UNCHANGED manager_vars

NextIndicators == NewBar \/ ComputeIndicators \/ \E side \in Sides : DonchianCheck(side)

SpecIndicators == InitIndicators /\ [][NextIndicators]_vars


\* the window each indicator is configured with
RequiredWindow(name, cfg) ==
    CASE name = "sma_20" -> cfg.sma_fast
      [] name = "sma_50" -> cfg.sma_mid
      [] name = "sma_200" -> cfg.sma_long
      [] name = "ema_12" -> EmaFastSpan
      [] name = "ema_26" -> EmaSlowSpan
      [] name \in {"macd", "macd_signal", "macd_histogram"} -> cfg.macd_slow
      [] name = "roc" -> cfg.roc_lookback
      [] name = "atr" -> cfg.atr_period
      [] name = "volume_sma" -> VolumeSmaPeriod
      [] name \in SupportResistanceIndicatorNames -> cfg.donchian_period

RollingNames ==
    {"sma_20", "sma_50", "sma_200", "roc", "atr"} \cup SupportResistanceIndicatorNames
EwmNames == {"ema_12", "ema_26", "macd", "macd_signal"}

Computed == result.op = "compute_indicators" /\ Len(df) > 0

AllUndefined(series) == \A i \in 1..Len(series) : ~IsNum(series[i])
AllNumbers(series) == \A i \in 1..Len(series) : IsNum(series[i])

\* C10 as stated: on a frame shorter than an indicator's window every value of the
\* indicator is undefined, for SMA, EMA, MACD, its signal line, ATR, Donchian and ROC.
C10_AllUndefinedBelowWindow ==
    Computed =>
        \A name \in RollingNames \cup EwmNames :
            Len(df) < RequiredWindow(name, config) => AllUndefined(indicators[name])

\* C10 amended: on a frame shorter than the window every value of SMA, ROC, ATR and
\* the Donchian bounds is undefined, whereas EMA, MACD and the signal line are
\* numbers at every bar, the first one included.
C10_RollingUndefinedEwmDefined ==
    Computed =>
        /\ \A name \in RollingNames :
              Len(df) < RequiredWindow(name, config) => AllUndefined(indicators[name])
        /\ \A name \in EwmNames : AllNumbers(indicators[name])

C10_Witness ==
    /\ Computed
    /\ Len(df) < config.sma_fast /\ Len(df) < config.atr_period
    /\ Len(df) < config.roc_lookback /\ Len(df) < config.donchian_period
    /\ Len(df) > 1
    /\ AllUndefined(indicators["sma_20"]) /\ AllUndefined(indicators["donchian_high"])
    /\ Len(df) < config.macd_slow /\ IsNum(indicators["macd_signal"][1])
    /\ Eq(indicators["ema_12"][1], V(df[1].close))


\* the latest bar breaks out of the window of `period` bars before it
PriorWindowBreakout(frame, period, side) ==
    LET n == Len(frame) IN
    /\ n > period
    /\ \/ side = "LONG" /\ \A j \in (n - period)..(n - 1) : frame[n].high > frame[j].high
       \/ side = "SHORT" /\ \A j \in (n - period)..(n - 1) : frame[n].low < frame[j].low

\* C12: on the indicators of compute_indicators the Donchian sub-trigger fires for
\* LONG exactly when the latest high exceeds the highest high of the donchian_period
\* bars before it, and for SHORT exactly when the latest low undercuts their lowest low.
C12_DonchianPriorWindow ==
    result.op = "donchian_breakout" =>
        (result.fired <=> PriorWindowBreakout(df, config.donchian_period, result.side))


-----------------------------------------------------------------------------
(* Specification of the trend filter: the higher-timeframe dictionary is   *)
(* any dictionary with some of the four series the filter reads, and the   *)
(* filter is run on it shifted (as generate_signals does) or as it is.     *)

MaxSeriesLen == 2

TrendKeys == {"close", "sma_200", "sma_50", "sma_20"}
TrendValues == {NaN, V(1), V(2)}

\* series of one length over TrendValues; bars before the last two are V(1)
TrendSeries(len) ==
    {[i \in 1..len |-> IF i = len THEN b ELSE IF i = len - 1 THEN a ELSE V(1)] :
        a \in TrendValues, b \in TrendValues}

TrendDicts ==
    UNION {UNION {[keys -> TrendSeries(len)] : keys \in SUBSET TrendKeys} :
              len \in 1..MaxSeriesLen}

InitTrend ==
    /\ now = 0
    /\ signal_states = EmptyDict
    /\ last_signals = EmptyDict
    /\ result = NoResult
    /\ config = DefaultConfig
    /\ df = <<>>
    /\ indicators \in TrendDicts
    /\ IdleManagers

TrendResult(op, side, outcome) ==
    [op |-> op, side |-> side, valid |-> outcome[1], reason |-> outcome[2]]

\* generate_signals: shift, then _check_trend_filter
TrendOnShifted(side) ==
    /\ result' = TrendResult("trend_shifted", side,
                     check_trend_filter(shift_htf_indicators(indicators), side))
    /\ UNCHANGED <<now, signal_states, last_signals, config, df, indicators>>
    /\ UNCHANGED manager_vars

\* _check_trend_filter called on the dictionary itself
TrendDirect(side) ==
    /\ result' = TrendResult("trend", side, check_trend_filter(indicators, side))
    /\ UNCHANGED <<now, signal_states, last_signals, config, df, indicators>>
    /\ UNCHANGED manager_vars

NextTrend == \E side \in Sides : TrendOnShifted(side) \/ TrendDirect(side)

SpecTrend == InitTrend /\ [][NextTrend]_vars

\* the dictionaries that differ from d at most in the last bar of each series
LastBarVariants(d) ==
    {[name \in DOMAIN d |-> [i \in 1..Len(d[name]) |->
                                IF i = Len(d[name]) THEN r[name] ELSE d[name][i]]] :
        r \in [DOMAIN d -> TrendValues]}

\* C8: the trend decision of an evaluation is the same for every two higher-timeframe
\* inputs that differ only in the values of their last bar.
C8_TrendIgnoresLastBar ==
    result.op = "trend_shifted" =>
        \A alt \in LastBarVariants(indicators) :
            check_trend_filter(shift_htf_indicators(alt), result.side)
                = <<result.valid, result.reason>>

\* the shifted filter passes on a dictionary whose last bar alone would make it fail
C8_Witness ==
    /\ result.op = "trend_shifted"
    /\ result.valid
    /\ ~check_trend_filter(indicators, result.side)[1]
    /\ \E alt \in LastBarVariants(indicators) : check_trend_filter(alt, result.side)[1]


\* the dictionary the filter of the latest call read
TrendInput == IF result.op = "trend_shifted" THEN shift_htf_indicators(indicators) ELSE indicators

SomeValueUndefined(d) ==
    \E name \in TrendKeys : ~IsNum(get_indicator_value(d, name, -1))

\* C9: when a value the trend filter reads is NaN or absent, the filter returns false
\* for the side asked and its reason says that data is missing.
C9_UndefinedGivesMissingData ==
    (result.op \in {"trend", "trend_shifted"} /\ SomeValueUndefined(TrendInput)) =>
        /\ ~result.valid
        /\ result.reason.tag = "Missing trend indicator data"


\* C11: on one indicator snapshot, equal and undefined values included, the trend
\* filter does not hold for LONG and for SHORT at once.
C11_TrendSidesExclusive ==
    result.op \in {"trend", "trend_shifted"} =>
        ~(check_trend_filter(TrendInput, "LONG")[1] /\ check_trend_filter(TrendInput, "SHORT")[1])

\* the filter has just passed for one side, on a snapshot where the other side fails
C11_Witness ==
    /\ result.op \in {"trend", "trend_shifted"}
    /\ result.valid
    /\ \E side \in Sides : side # result.side /\ ~check_trend_filter(TrendInput, side)[1]


-----------------------------------------------------------------------------
(* Specification of the quality filter: a two-bar frame at close 100 with  *)
(* any volumes, an indicator dictionary with or without the atr and the    *)
(* volume_sma series, and the filter of either generator run on them.      *)

QualityClose == {100}
\* ATR of 0.1 %, 1 % and 5 % of the close; the band is 0.3 % .. 3 %
QualityAtrs == {NaN, Num(1, 10), V(1), V(5)}
QualityVolumes == {NaN, V(10), V(12), V(20)}
QualityVolumeSmas == {NaN, V(0), V(10)}

QualityFrames ==
    {<<Bar(0, c, c, c, c, v1), Bar(1, c, c, c, c, v2)>> :
        c \in QualityClose, v1 \in QualityVolumes, v2 \in QualityVolumes}

QualityDicts ==
    UNION {[atr : {<<NaN, a>> : a \in QualityAtrs},
            volume_sma : {<<NaN, m>> : m \in QualityVolumeSmas}],
           [atr : {<<NaN, a>> : a \in QualityAtrs}],
           [volume_sma : {<<NaN, m>> : m \in QualityVolumeSmas}],
           {EmptyDict}}

InitQuality ==
    /\ now = 0
    /\ signal_states = EmptyDict
    /\ last_signals = EmptyDict
    /\ result = NoResult
    /\ config = DefaultConfig
    /\ df \in QualityFrames
    /\ indicators \in QualityDicts
    /\ IdleManagers

\* SignalEngine._check_quality_filter
EngineQuality ==
    /\ result' = [op |-> "quality", by |-> "engine",
                  passed |-> check_quality_filter(df, indicators, config)]
    /\ UNCHANGED <<now, signal_states, last_signals, config, df, indicators>>
    /\ UNCHANGED manager_vars

\* QualityFilter.check_quality
GeneratorQuality ==
    /\ result' = [op |-> "quality", by |-> "generator",
                  passed |-> check_quality(df, indicators, config)]
    /\ UNCHANGED <<now, signal_states, last_signals, config, df, indicators>>
    /\ UNCHANGED manager_vars

NextQuality == EngineQuality \/ GeneratorQuality

SpecQuality == InitQuality /\ [][NextQuality]_vars

\* the latest value of a series of the dictionary, NaN when there is none
Latest(name) ==
    IF name \in DOMAIN indicators THEN indicators[name][Len(indicators[name])] ELSE NaN

AtrPctInBand ==
    LET atr_pct == FDiv(Latest("atr"), V(LastRow(df).close))
    IN  Le(config.atr_min_pct, atr_pct) /\ Le(atr_pct, config.atr_max_pct)

VolumeAbsent == \A i \in 1..Len(df) : IsNaN(df[i].volume)

VolumeAtThreshold ==
    Ge(LastRow(df).volume,
       FDivInt(FScale(Latest("volume_sma"), config.vol_mult.n), config.vol_mult.d))

\* C13: the quality filter passes exactly when the ATR percentage is inside the band
\* and the volume is either entirely absent or at least vol_mult times its rolling
\* mean; a volume below the threshold fails the filter whatever the ATR, and an ATR
\* outside the band fails it whatever the volume.
C13_QualityIsConjunction ==
    result.op = "quality" =>
        (result.passed <=> AtrPctInBand /\ (VolumeAbsent \/ VolumeAtThreshold))


-----------------------------------------------------------------------------
(* MacroCalendar, app/macro.py: times are minutes, an event carries its    *)
(* schedule of exact times and its impact.                                 *)

DefaultImpactLevels == {"high", "medium"}

\* the scheduled occurrences inside [start_time, end_time] with a listed impact
get_events_in_window(events, start_time, end_time, impact_levels) ==
    {[name |-> events[e].name, time |-> events[e].schedule[k], impact |-> events[e].impact] :
        <<e, k>> \in {x \in (1..Len(events)) \X (1..2) :
                        /\ x[2] <= Len(events[x[1]].schedule)
                        /\ start_time <= events[x[1]].schedule[x[2]]
                        /\ events[x[1]].schedule[x[2]] <= end_time
                        /\ events[x[1]].impact \in impact_levels}}

is_trading_allowed(events, current_time, no_trade_minutes_before, no_trade_minutes_after) ==
    LET window_start == current_time - no_trade_minutes_before
        window_end == current_time + no_trade_minutes_after
        blocking_events == get_events_in_window(events, window_start, window_end,
                                                DefaultImpactLevels)
    IN  [allowed |-> blocking_events = {}, blocking_events |-> blocking_events]

-----------------------------------------------------------------------------
(* Specification of the macro guard: a calendar of up to two events and a  *)
(* pair of no-trade margins are loaded, time passes, the guard is asked.   *)

\* the clock stops at MaxTime minutes
MaxTime == 3

EventTimes == {1, 2}
Margins == {0, 1, 2}
Impacts == {"high", "low"}

MacroEvents ==
    {[name |-> <<t, i>>, schedule |-> <<t>>, impact |-> i] : t \in EventTimes, i \in Impacts}

Calendars == {<<>>} \cup {<<e>> : e \in MacroEvents}
                    \cup {<<e1, e2>> : e1 \in MacroEvents, e2 \in MacroEvents}

MacroConfigs ==
    [events : Calendars, no_trade_minutes_before : Margins, no_trade_minutes_after : Margins]

InitMacro ==
    /\ now = 0
    /\ signal_states = EmptyDict
    /\ last_signals = EmptyDict
    /\ result = NoResult
    /\ config \in MacroConfigs
    /\ df = <<>>
    /\ indicators = EmptyDict
    /\ IdleManagers

\* MacroCalendar.is_trading_allowed(now, before, after)
IsTradingAllowed ==
    /\ result' = [op |-> "is_trading_allowed",
                  allowed |-> is_trading_allowed(config.events, now,
                                  config.no_trade_minutes_before,
                                  config.no_trade_minutes_after).allowed]
    /\ UNCHANGED <<now, signal_states, last_signals, config, df, indicators>>
    /\ UNCHANGED manager_vars

MacroTick ==
    /\ now < MaxTime
    /\ now' = now + 1
    /\ result' = [op |-> "tick"]
    /\ UNCHANGED <<signal_states, last_signals, config, df, indicators>>
    /\ UNCHANGED manager_vars

NextMacro == MacroTick \/ IsTradingAllowed

SpecMacro == InitMacro /\ [][NextMacro]_vars

\* some event of a blocking impact has now inside [time - before, time + after]
InsideNoTradeWindow ==
    \E e \in 1..Len(config.events) :
        /\ config.events[e].impact \in DefaultImpactLevels
        /\ \E k \in 1..Len(config.events[e].schedule) :
              /\ config.events[e].schedule[k] - config.no_trade_minutes_before <= now
              /\ now <= config.events[e].schedule[k] + config.no_trade_minutes_after

\* C14: the macro guard reports blocked at now exactly when some event has
\* event_time - minutes_before <= now <= event_time + minutes_after, whatever the
\* two margins are.
C14_BlockedInsideWindow ==
    result.op = "is_trading_allowed" => (~result.allowed <=> InsideNoTradeWindow)


-----------------------------------------------------------------------------
(* Position sizing, app/sizing.py *)

\* float * float and float / float for a divisor other than zero; NaN propagates
FMul(a, b) == IF IsNum(a) /\ IsNum(b) THEN Frac(a.n * b.n, a.d * b.d) ELSE NaN
FQuot(a, b) ==
    IF IsNum(a) /\ IsNum(b) /\ b.n # 0
    THEN (IF b.n > 0 THEN Frac(a.n * b.d, a.d * b.n) ELSE Frac(0 - a.n * b.d, a.d * (0 - b.n)))
    ELSE NaN

\* Python min(a, b) and max(a, b): the first argument unless the second compares beyond it
PyMin(a, b) == IF Lt(b, a) THEN b ELSE a
PyMax(a, b) == IF Gt(b, a) THEN b ELSE a

\* Account.reset_daily_stats when the date has changed
reset_daily_stats(account, new_day) ==
    IF new_day THEN [account EXCEPT !.daily_pnl = V(0)] ELSE account

\* a risk budget without the floor at zero
get_available_risk_unfloored(account) ==
    PyMin(FMul(account.equity, account.risk_per_trade_pct),
          FAdd(FMul(account.equity, account.max_daily_loss_pct), account.daily_pnl))

\* Account.get_available_risk, after reset_daily_stats
get_available_risk(account) ==
    LET max_daily_risk == FMul(account.equity, account.max_daily_loss_pct)
        remaining_daily_risk == FAdd(max_daily_risk, account.daily_pnl)
        per_trade_risk == FMul(account.equity, account.risk_per_trade_pct)
    IN  PyMin(per_trade_risk, PyMax(V(0), remaining_daily_risk))

round_to_lot_size(lot_size) ==
    IF Lt(lot_size, Num(1, 100)) THEN Num(1, 100)
    ELSE IF Lt(lot_size, Num(1, 10)) THEN RoundDigits(lot_size, 2)
    ELSE IF Lt(lot_size, V(1)) THEN RoundDigits(lot_size, 1)
    ELSE V(RoundHalfEven(lot_size))

PositionPlan(size_units, risk_amount, risk_pct, value_per_point, potential_profit, position_value, margin_required, leverage) ==
    [size_units |-> size_units, risk_amount |-> risk_amount, risk_pct |-> risk_pct,
     value_per_point |-> value_per_point, max_loss |-> risk_amount,
     potential_profit |-> potential_profit, position_value |-> position_value,
     margin_required |-> margin_required, leverage |-> leverage]

create_empty_plan == PositionPlan(V(0), V(0), V(0), V(0), V(0), V(0), V(0), V(0))

calculate_pip_distance(instrument, entry_price, exit_price) ==
    FQuot(FAbs(FSub(exit_price, entry_price)), instrument.min_step)

calculate_position_value(instrument, size_units, price) ==
    IF instrument.kind = "fx" THEN FMul(FScale(size_units, instrument.lot_size), price)
    ELSE FMul(FMul(size_units, price), instrument.point_value)

\* signal's stop distance as the sizer measures it
RiskPerUnit(signal) ==
    IF signal.side = "LONG" THEN FSub(signal.entry_price, signal.stop_loss)
    ELSE FSub(signal.stop_loss, signal.entry_price)

\* the value at risk per lot (FX) or per unit (other kinds)
RiskPerSize(signal, instrument) ==
    IF instrument.kind = "fx"
    THEN FMul(calculate_pip_distance(instrument, signal.entry_price, signal.stop_loss),
              instrument.pip_value)
    ELSE FMul(FQuot(RiskPerUnit(signal), instrument.min_step), instrument.point_value)

SizeUnits(signal, instrument, available_risk) ==
    LET risk_per_size == RiskPerSize(signal, instrument)
    IN  IF instrument.kind = "fx"
        THEN (IF Gt(risk_per_size, V(0))
              THEN round_to_lot_size(FQuot(available_risk, risk_per_size))
              ELSE Num(1, 100))
        ELSE (IF Gt(risk_per_size, V(0))
              THEN RoundDigits(FQuot(available_risk, risk_per_size), 2)
              ELSE V(1))

\* PositionSizer.calculate_position_size with current_price = signal.entry_price; a
\* division by zero (min_step, equity) is caught and gives the empty plan
calculate_position_size(signal, instrument, account) ==
    LET current_price == signal.entry_price
        available_risk == get_available_risk(account)
        risk_per_unit == RiskPerUnit(signal)
    IN  IF Le(risk_per_unit, V(0)) THEN create_empty_plan
        ELSE IF Eq(instrument.min_step, V(0)) THEN create_empty_plan
        ELSE LET size_units == SizeUnits(signal, instrument, available_risk)
                 value_per_point == IF instrument.kind = "fx" THEN instrument.pip_value
                                    ELSE instrument.point_value
                 position_value == calculate_position_value(instrument, size_units, current_price)
                 risk_amount == FMul(FMul(size_units, risk_per_unit), value_per_point)
                 profit_per_unit == IF signal.side = "LONG"
                                    THEN FSub(signal.take_profit, current_price)
                                    ELSE FSub(current_price, signal.take_profit)
                 potential_profit == FMul(FMul(size_units, profit_per_unit), value_per_point)
                 margin_required == FMul(position_value, instrument.margin_requirement)
                 leverage == IF Gt(margin_required, V(0))
                             THEN FQuot(position_value, margin_required) ELSE V(0)
             IN  IF Eq(account.equity, V(0)) THEN create_empty_plan
                 ELSE PositionPlan(size_units, risk_amount,
                                   FScale(FQuot(risk_amount, account.equity), 100),
                                   value_per_point, potential_profit, position_value,
                                   margin_required, leverage)

-----------------------------------------------------------------------------
(* Specification of the sizer: an account is configured, closed positions  *)
(* move its daily profit and loss, and signals at entry 100 are sized for  *)
(* index and FX instruments.                                               *)

StopLevels == {NaN, V(94), V(95), V(100), V(105)}

SizingSignals ==
    {[side |-> side, entry_price |-> V(100), stop_loss |-> sl,
      take_profit |-> IF side = "LONG" THEN V(110) ELSE V(90)] :
        side \in Sides, sl \in StopLevels}

SizingInstrument(kind, value, min_step) ==
    [kind |-> kind, point_value |-> IF kind = "fx" THEN V(1) ELSE value,
     pip_value |-> IF kind = "fx" THEN value ELSE V(10), min_step |-> min_step,
     lot_size |-> 100000, margin_requirement |-> Num(1, 100)]

SizingInstruments ==
    {SizingInstrument("index", value, min_step) :
        value \in {V(0), V(1), V(2)}, min_step \in {V(0), Num(1, 4), V(1)}}
    \cup {SizingInstrument("fx", value, min_step) :
        value \in {V(0), V(10)}, min_step \in {V(0), Num(1, 100)}}

Accounts ==
    [equity : {V(0), V(10000)}, risk_per_trade_pct : {Num(8, 1000), Num(1, 100)},
     max_daily_loss_pct : {Num(2, 100)}, daily_pnl : {V(0)}]

ClosedPnls == {V(-150), V(150)}
DailyPnls == {V(-300), V(-150), V(0), V(150), V(300)}

InitSizing ==
    /\ now = 0
    /\ signal_states = EmptyDict
    /\ last_signals = EmptyDict
    /\ result = NoResult
    /\ config \in [account : Accounts]
    /\ df = <<>>
    /\ indicators = EmptyDict
    /\ IdleManagers

\* RiskManager.update_positions closing a position: account.daily_pnl += current_pnl
ClosePosition(pnl) ==
    /\ FAdd(config.account.daily_pnl, pnl) \in DailyPnls
    /\ config' = [config EXCEPT !.account.daily_pnl = FAdd(@, pnl)]
    /\ result' = [op |-> "close_position"]
    /\ UNCHANGED <<now, signal_states, last_signals, df, indicators>>
    /\ UNCHANGED manager_vars

\* PositionSizer.calculate_position_size, on the same or on a new day
CalculatePositionSize(signal, instrument, new_day) ==
    LET account == reset_daily_stats(config.account, new_day)
    IN  /\ config' = [config EXCEPT !.account = account]
        /\ result' = [op |-> "calculate_position_size", signal |-> signal,
                      instrument |-> instrument,
                      plan |-> calculate_position_size(signal, instrument, account)]
        /\ UNCHANGED <<now, signal_states, last_signals, df, indicators>>
        /\ UNCHANGED manager_vars

NextSizing ==
    \/ \E pnl \in ClosedPnls : ClosePosition(pnl)
    \/ \E signal \in SizingSignals, instrument \in SizingInstruments, new_day \in BOOLEAN :
            CalculatePositionSize(signal, instrument, new_day)

SpecSizing == InitSizing /\ [][NextSizing]_vars

Sized == result.op = "calculate_position_size"

\* C16: the sizer never returns a negative or NaN size_units, and returns exactly 0
\* when the entry equals the stop loss.
C16_SizeNeverNegativeOrNaN ==
    Sized =>
        /\ IsNum(result.plan.size_units)
        /\ Ge(result.plan.size_units, V(0))
        /\ Eq(result.signal.entry_price, result.signal.stop_loss) =>
               Eq(result.plan.size_units, V(0))

\* a signal whose stop is at the entry has been sized on an account that lost more
\* than its daily limit
C16_Witness ==
    /\ Sized
    /\ Eq(result.signal.entry_price, result.signal.stop_loss)
    /\ Lt(config.account.daily_pnl, V(-200))
    /\ Gt(config.account.equity, V(0))
    /\ Eq(result.plan.size_units, V(0))

\* pip value for FX, point value for the other kinds
ValuePerPoint(instrument) ==
    IF instrument.kind = "fx" THEN instrument.pip_value ELSE instrument.point_value

\* C17: when the instrument's value per point (pip value for FX, point value
\* otherwise) is zero, the sizer returns size_units = 0.
C17_ZeroValuePerPointGivesZero ==
    Sized /\ Eq(ValuePerPoint(result.instrument), V(0)) =>
        Eq(result.plan.size_units, V(0))

\* equity * risk_per_trade_pct
RiskBudget == FMul(config.account.equity, config.account.risk_per_trade_pct)

StopDistance == FAbs(FSub(result.signal.entry_price, result.signal.stop_loss))

\* C18: for a non-FX instrument size_units = risk_amount / (|entry - sl| * point_value)
\* with risk_amount = equity * risk_pct, whatever the tick size (entry 100, stop 95,
\* equity 10000, risk 1 %, point value 1: size_units = 20). The quotient is compared
\* to two decimals, on an account without a loss on the day and a valid stop.
C18_NonFxSizeIgnoresTickSize ==
    /\ Sized
    /\ result.instrument.kind # "fx"
    /\ Gt(result.instrument.point_value, V(0))
    /\ Gt(result.instrument.min_step, V(0))
    /\ Gt(RiskPerUnit(result.signal), V(0))
    /\ Gt(config.account.equity, V(0))
    /\ Ge(config.account.daily_pnl, V(0))
    => Eq(result.plan.size_units,
          RoundDigits(FQuot(RiskBudget, FMul(StopDistance, result.instrument.point_value)), 2))

\* size_units times the stop distance in value units
LossAtStop == FMul(result.plan.size_units, RiskPerSize(result.signal, result.instrument))

\* C19: the size is rounded down, never up, so the loss at the stop never exceeds the
\* risk budget, and the budget is at most equity * risk_per_trade_pct.
C19_LossAtStopWithinBudget ==
    /\ Sized
    /\ Gt(result.instrument.min_step, V(0))
    /\ Gt(RiskPerUnit(result.signal), V(0))
    => /\ Le(LossAtStop, get_available_risk(config.account))
       /\ Le(get_available_risk(config.account), RiskBudget)


-----------------------------------------------------------------------------
(* Specification of price rounding: an instrument's tick size is fixed,    *)
(* prices are rounded to it, and a rounded price is rounded once more.     *)

\* tick sizes: invalid ones, grid-aligned ones, and ones whose multiples do not
\* fit the decimal places kept for them
TickSizes ==
    {V(-1), V(0), Num(3, 10000000), Num(1, 100), Num(1, 10), Num(3, 20), Num(1, 4),
     V(1), Num(3, 2), V(5)}

RoundingPrices == {Frac(k, 8) : k \in -12..28} \cup {Frac(k, 100) : k \in {-5, 5, 15, 101, 115}}
TinyPrices == {Frac(k, 1000000) : k \in 0..20}

\* prices of the magnitude the tick size is quoted for
PricesFor(min_step) ==
    IF Gt(min_step, V(0)) /\ Lt(min_step, Num(1, 100000)) THEN TinyPrices ELSE RoundingPrices

InitRounding ==
    /\ now = 0
    /\ signal_states = EmptyDict
    /\ last_signals = EmptyDict
    /\ result = NoResult
    /\ config \in [min_step : TickSizes]
    /\ df = <<>>
    /\ indicators = EmptyDict
    /\ IdleManagers

\* PricingEngine.round_price(price, min_step)
RoundPrice(price) ==
    /\ result' = [op |-> "round_price", price |-> price,
                  rounded |-> round_price(price, config.min_step)]
    /\ UNCHANGED <<now, signal_states, last_signals, config, df, indicators>>
    /\ UNCHANGED manager_vars

\* round_price applied to the price it returned
RoundAgain ==
    /\ result.op = "round_price"
    /\ result' = [op |-> "round_price", price |-> result.rounded,
                  rounded |-> round_price(result.rounded, config.min_step)]
    /\ UNCHANGED <<now, signal_states, last_signals, config, df, indicators>>
    /\ UNCHANGED manager_vars

NextRounding == (\E price \in PricesFor(config.min_step) : RoundPrice(price)) \/ RoundAgain

SpecRounding == InitRounding /\ [][NextRounding]_vars

\* C20: rounding to the tick size is idempotent: rounding a rounded price again
\* with the same step gives the same price, for every price and every step.
C20_RoundingIdempotent ==
    result.op = "round_price" =>
        round_price(result.rounded, config.min_step) = result.rounded

\* the tick's nearest multiple of a price
NearestMultiple(price, min_step) == FScale(min_step, RoundHalfEven(FDiv(price, min_step)))

\* a price was moved by the rounding to a value that the decimal places took off the
\* tick grid
C20_Witness ==
    /\ result.op = "round_price"
    /\ Gt(config.min_step, V(0))
    /\ result.rounded # result.price
    /\ NearestMultiple(result.rounded, config.min_step) # result.rounded


-----------------------------------------------------------------------------
(* Inputs of one rule evaluation, as a caller of _check_signal_conditions  *)
(* builds them: a trend dictionary, a two-bar lower-timeframe frame and    *)
(* its indicator dictionary, the instrument and the macro guard.           *)

Symbols == {"EURUSD", "NAS100"}

HtfDict(trend) ==
    CASE trend = "up" ->
            [close |-> <<V(3), V(3)>>, sma_200 |-> <<V(1), V(1)>>,
             sma_50 |-> <<V(1), V(1)>>, sma_20 |-> <<V(2), V(2)>>]
      [] trend = "down" ->
            [close |-> <<V(1), V(1)>>, sma_200 |-> <<V(3), V(3)>>,
             sma_50 |-> <<V(2), V(2)>>, sma_20 |-> <<V(1), V(1)>>]
      [] OTHER -> EmptyDict

LtfData(i) ==
    <<Bar(0, i.close, i.close, i.close, i.close, i.volume),
      Bar(1, i.close, i.close, i.close, i.close, i.volume)>>

\* the volume average is 10 whenever the feed reports volume
LtfIndicators(i) ==
    [name \in {"roc"} \cup (IF IsNone(i.atr) THEN {} ELSE {"atr"})
                      \cup (IF IsNaN(i.volume) THEN {} ELSE {"volume_sma"}) |->
        CASE name = "roc" -> <<NaN, i.roc>>
          [] name = "atr" -> <<i.atr, i.atr>>
          [] name = "volume_sma" -> <<V(10), V(10)>>]

Instrument(i) == [min_step |-> i.min_step]

\* None, the engine's {'allowed': ...} and the dictionary TimeFilter.can_trade returns
MacroGuard(macro) ==
    CASE macro = "open" -> [allowed |-> TRUE]
      [] macro = "blocked" -> [allowed |-> FALSE]
      [] macro = "time_blocked" -> [can_trade |-> FALSE]
      [] OTHER -> EmptyDict

GuardReportsBlocked(macro) == macro \in {"blocked", "time_blocked"}

Input(symbol, side, trend, close, r, a, volume, min_step, macro) ==
    [symbol |-> symbol, side |-> side, trend |-> trend, close |-> close, roc |-> r,
     atr |-> a, volume |-> volume, min_step |-> min_step, macro |-> macro]

EngineOutcome(states, t, i, cfg) ==
    check_signal_conditions(states, t, LtfData(i), HtfDict(i.trend), LtfIndicators(i),
                            i.symbol, i.side, Instrument(i), MacroGuard(i.macro), cfg)

GeneratorOutcome(t, i, cfg) ==
    generator_check_signal_conditions(t, LtfData(i), HtfDict(i.trend), LtfIndicators(i),
                                      i.symbol, i.side, MacroGuard(i.macro), cfg)

Put(dict, key, value) ==
    [x \in DOMAIN dict \cup {key} |-> IF x = key THEN value ELSE dict[x]]

Record(signals, emitted) ==
    IF Len(emitted) = 0 THEN signals
    ELSE LET put1 == Put(signals, <<emitted[1].symbol, emitted[1].side>>, emitted[1])
         IN  IF Len(emitted) = 1 THEN put1
             ELSE Put(put1, <<emitted[2].symbol, emitted[2].side>>, emitted[2])

\* one call of SignalEngine._check_signal_conditions
EngineCheck(i) ==
    LET out == EngineOutcome(signal_states, now, i, config)
        signals == SignalsOf(<<out>>)
    IN  /\ signal_states' = out.states
        /\ last_signals' = Record(last_signals, signals)
        /\ result' = [op |-> "engine_check", input |-> i, gate |-> out.gate,
                      returned |-> out.signal, signals |-> signals]
        /\ UNCHANGED <<now, config, df, indicators>>
        /\ UNCHANGED manager_vars

\* one call of SignalGenerator._check_signal_conditions
GeneratorCheck(i) ==
    LET out == GeneratorOutcome(now, i, config)
    IN  /\ result' = [op |-> "generator_check", input |-> i, gate |-> out.gate,
                      returned |-> out.signal, signals |-> SignalsOf(<<out>>)]
        /\ UNCHANGED <<now, signal_states, last_signals, config, df, indicators>>
        /\ UNCHANGED manager_vars


-----------------------------------------------------------------------------
(* Specification of the price levels: one evaluation by a freshly built    *)
(* engine or generator, over a wide range of prices, ATR values and ticks. *)

LevelCloses == {1, 7, 100, 333}
LevelAtrs == {None, NaN, V(0), Num(1, 100), Num(1, 2), V(1), Num(3, 2), V(3), V(40)}
LevelSteps == {V(0), Num(1, 10000), Num(1, 100), Num(1, 4), V(1), V(5)}
EngineGuards == {"none", "open", "blocked"}
GeneratorGuards == EngineGuards \cup {"time_blocked"}

LevelInputs(guards) ==
    {Input("EURUSD", side, trend, close, r, a, volume, min_step, macro) :
        side \in Sides, trend \in {"up", "down"}, close \in LevelCloses,
        r \in {Num(1, 100), Num(-1, 100)}, a \in LevelAtrs, volume \in {NaN, V(30)},
        min_step \in LevelSteps, macro \in guards}

InitLevels ==
    /\ now = 0
    /\ signal_states = EmptyDict
    /\ last_signals = EmptyDict
    /\ result = NoResult
    /\ config = DefaultConfig
    /\ df = <<>>
    /\ indicators = EmptyDict
    /\ IdleManagers

FirstEngineCheck == result = NoResult /\ \E i \in LevelInputs(EngineGuards) : EngineCheck(i)

FirstGeneratorCheck ==
    result = NoResult /\ \E i \in LevelInputs(GeneratorGuards) : GeneratorCheck(i)

NextLevels == FirstEngineCheck \/ FirstGeneratorCheck

SpecLevels == InitLevels /\ [][NextLevels]_vars

CheckOps == {"engine_check", "generator_check"}

Ordered(signal) ==
    IF signal.side = "LONG"
    THEN Lt(signal.stop_loss, signal.entry_price) /\ Lt(signal.entry_price, signal.take_profit)
    ELSE Lt(signal.take_profit, signal.entry_price) /\ Lt(signal.entry_price, signal.stop_loss)

\* C3: every emitted signal has stop_loss < entry_price < take_profit when LONG and
\* take_profit < entry_price < stop_loss when SHORT, for every entry price and ATR >= 0.
C3_LevelsOrdered ==
    (result.op \in CheckOps /\ Ge(result.input.atr, V(0))) =>
        \A k \in 1..Len(result.signals) : Ordered(result.signals[k])

\* C4: an evaluation made while the macro/time guard reports the time as blocked
\* emits no signal, whichever component evaluates.
C4_BlockedEmitsNothing ==
    (result.op \in CheckOps /\ GuardReportsBlocked(result.input.macro)) =>
        result.signals = <<>>

\* x is an integer multiple of min_step
IsMultiple(x, min_step) == IsNum(x) /\ FDiv(x, min_step).d = 1

\* the levels before rounding: the close, and the stop and target computed from it
RawLevels(i, cfg) ==
    LET raw_sl == StopLoss(i.side, V(i.close), i.atr, cfg)
    IN  [entry_price |-> V(i.close), stop_loss |-> raw_sl,
         take_profit |-> TakeProfit(i.side, V(i.close), raw_sl, cfg)]

OnTickGrid(signal, raw, min_step) ==
    \A f \in {"entry_price", "stop_loss", "take_profit"} :
        /\ IsMultiple(signal[f], min_step)
        /\ Le(FScale(FAbs(FSub(signal[f], raw[f])), 2), min_step)

\* C21: for every tick size min_step > 0, powers of ten or not, the entry, the stop
\* loss and the take profit of every signal the engine emits are integer multiples of
\* min_step, each the multiple nearest to its unrounded value.
C21_LevelsOnTickGrid ==
    (result.op = "engine_check" /\ Gt(result.input.min_step, V(0))) =>
        \A k \in 1..Len(result.signals) :
            OnTickGrid(result.signals[k], RawLevels(result.input, config), result.input.min_step)


-----------------------------------------------------------------------------
(* Specification of the signal lifecycle: one engine and one generator,    *)
(* evaluated again and again while the clock advances.                     *)

CooldownMinutes == 2

LifecycleConfig == [DefaultConfig EXCEPT !.per_symbol_minutes = CooldownMinutes]

\* an input on which all rule evaluators pass and the levels are valid
Passing(symbol, side) ==
    Input(symbol, side, IF side = "LONG" THEN "up" ELSE "down", 100,
          IF side = "LONG" THEN Num(1, 100) ELSE Num(-1, 100), V(1), NaN, Num(1, 100), "none")

\* the passing input and one variation per gate
Variants(p) ==
    {p,
     [p EXCEPT !.trend = "missing"],
     [p EXCEPT !.roc = V(0)],
     [p EXCEPT !.atr = V(10)],
     [p EXCEPT !.macro = "blocked"],
     [p EXCEPT !.atr = None, !.volume = V(30)],
     [p EXCEPT !.min_step = V(1)]}

\* every variation for one symbol, the passing inputs for the other
LifecycleInputs ==
    UNION {Variants(Passing("EURUSD", side)) : side \in Sides}
        \cup {Passing("NAS100", side) : side \in Sides}

\* a linearly rising history of n bars, prices in tenths: close 100.1, 100.2, ...
\* the last bar stamped last_ts, the bars `spacing` minutes apart
Ramp(n, last_ts, spacing) ==
    [i \in 1..n |-> Bar(last_ts - (n - i) * spacing, 1000 + i, 1002 + i, 998 + i, 1000 + i,
                        V(1000))]

Frame(n, age, spacing) == [bars |-> n, age |-> age, spacing |-> spacing]

\* daily histories whose last bar is a day old or stamped "now", a one-minute
\* history stamped "now", a history one bar short of the minimum, no history
Frames ==
    {Frame(250, 1440, 1440), Frame(250, 0, 1440), Frame(201, 0, 1), Frame(200, 0, 1440),
     Frame(0, 0, 1440)}

FrameBars(f, t) == Ramp(f.bars, t - f.age, f.spacing)

RampInstrument == [min_step |-> Num(1, 100)]

InitLifecycle ==
    /\ now = 0
    /\ signal_states = EmptyDict
    /\ last_signals = EmptyDict
    /\ result = NoResult
    /\ config = LifecycleConfig
    /\ df = <<>>
    /\ indicators = EmptyDict
    /\ IdleManagers

\* datetime.now() moves on between calls
Tick ==
    /\ now < MaxTime
    /\ now' = now + 1
    /\ result' = [op |-> "tick"]
    /\ UNCHANGED <<signal_states, last_signals, config, df, indicators>>
    /\ UNCHANGED manager_vars

\* SignalEngine.generate_signals on one frame used for both timeframes
EngineGenerate(f, symbol, macro) ==
    LET bars == FrameBars(f, now)
        out == generate_signals(signal_states, now, bars, bars, symbol, RampInstrument,
                                MacroGuard(macro), config)
    IN  /\ signal_states' = out.states
        /\ last_signals' = Record(last_signals, out.signals)
        /\ result' = [op |-> "engine_generate", frame |-> f, symbol |-> symbol,
                      macro |-> macro, signals |-> out.signals]
        /\ UNCHANGED <<now, config, df, indicators>>
        /\ UNCHANGED manager_vars

\* SignalGenerator.generate_signals as TradingScheduler._generate_signals and
\* Backtester._generate_signals_for_date call it
GeneratorGenerate(f, symbol, macro) ==
    LET bars == FrameBars(f, now)
    IN  /\ result' = [op |-> "generator_generate", frame |-> f, symbol |-> symbol,
                      macro |-> macro,
                      signals |-> generator_generate_signals(now, bars, bars, symbol,
                                      MacroGuard(macro), config)]
        /\ UNCHANGED <<now, signal_states, last_signals, config, df, indicators>>
        /\ UNCHANGED manager_vars

Next ==
    \/ Tick
    \/ \E i \in LifecycleInputs : EngineCheck(i)

Spec == InitLifecycle /\ [][Next]_vars

\* the whole pipeline on bar histories, by an engine that may be in a cooldown
NextPipeline ==
    \/ Tick
    \/ \E side \in Sides : EngineCheck(Passing("EURUSD", side))
    \/ \E f \in Frames, macro \in {"none", "blocked"} : EngineGenerate(f, "EURUSD", macro)
    \/ \E f \in Frames, macro \in {"none", "time_blocked"} :
          GeneratorGenerate(f, "EURUSD", macro)

SpecPipeline == InitLifecycle /\ [][NextPipeline]_vars


-----------------------------------------------------------------------------
(* Properties of the signal lifecycle *)

ResultKey == <<result.input.symbol, result.input.side>>

\* a freshly built engine would emit on this input: no gate but the cooldown can stop it
OtherwisePassing(i) == EngineOutcome(EmptyDict, now, i, config).gate = "emitted"

\* C1: after a signal for (symbol, side) at t0, an otherwise-passing re-evaluation of
\* the same (symbol, side) emits nothing while t0 < t < t0 + cooldown, and is not
\* stopped by the cooldown gate once t >= t0 + cooldown.
C1_CooldownGate ==
    (/\ result.op = "engine_check"
     /\ ResultKey \in DOMAIN last_signals
     /\ OtherwisePassing(result.input)) =>
        LET t0 == last_signals[ResultKey].timestamp
        IN  /\ (t0 < now /\ now < t0 + config.per_symbol_minutes) => result.signals = <<>>
            /\ now >= t0 + config.per_symbol_minutes => result.gate # "cooldown"

\* C6: cooldown state is kept per (symbol, side): a cooldown suppression of
\* (symbol, side) stems from a signal of that same pair, and the recorded state of
\* every pair that has emitted is that of its own latest signal.
C6_StatePerSymbolAndSide ==
    /\ (result.op = "engine_check" /\ result.gate = "cooldown") =>
          /\ ResultKey \in DOMAIN last_signals
          /\ now < last_signals[ResultKey].timestamp + config.per_symbol_minutes
    /\ \A key \in DOMAIN last_signals :
          \E s \in DOMAIN signal_states :
              /\ s = key[1]
              /\ signal_states[s].last_signal_id = last_signals[key].id

\* C7: an evaluation that emits no signal leaves signal_states as it was; the map is
\* written only by an evaluation that emits.
C7_NoSignalNoStateChange ==
    [][/\ (result'.op = "engine_check" /\ result'.signals = <<>>)
            => signal_states' = signal_states
       /\ signal_states' # signal_states
            => (result'.op = "engine_check" /\ result'.signals # <<>>)]_vars

\* a suppression by the price-level validation on an engine that holds earlier state
C7_Witness ==
    /\ result.op = "engine_check"
    /\ result.gate = "price_levels"
    /\ result.signals = <<>>
    /\ result.input.symbol \in DOMAIN signal_states

-----------------------------------------------------------------------------
(* Properties of the pipeline on bar histories *)

WithoutLastBar(frame) == SubSeq(frame, 1, Len(frame) - 1)

\* C2: on a history whose last bar is stamped "now" the engine decides as it does on
\* the history without that bar: the same list of signals, and, the bars being at
\* least five minutes apart, the same closed bars behind it.
C2_LastBarAtNowIgnored ==
    [][(result'.op = "engine_generate" /\ result'.frame.age = 0 /\ result'.frame.bars > 0) =>
          LET bars == FrameBars(result'.frame, now')
              shorter == WithoutLastBar(bars)
          IN  /\ result'.signals =
                    generate_signals(signal_states, now', shorter, shorter, result'.symbol,
                                     RampInstrument, MacroGuard(result'.macro), config).signals
              /\ result'.frame.spacing >= IncompleteBarMinutes
                    => get_closed_bars(bars, now') = get_closed_bars(shorter, now')]_vars

\* a 250-bar daily history stamped "now" was evaluated and its last bar dropped
C2_Witness ==
    /\ result.op = "engine_generate"
    /\ result.frame.age = 0
    /\ result.frame.bars > MinHtfBars
    /\ result.frame.spacing >= IncompleteBarMinutes
    /\ Len(get_closed_bars(FrameBars(result.frame, now), now)) = result.frame.bars - 1

\* TrendFilter(LONG), the rate-of-change EntryTrigger(LONG) and the ATR band of
\* QualityFilter hold on the closed bars, read off the series of compute_indicators:
\* the trend on the bar before the last closed one, the other two on the last one
RulesHoldLong(closed, cfg) ==
    LET inds == compute_indicators(closed, cfg)
        close == PriceColumn(closed, "close")
        n == Len(closed)
    IN  /\ n >= MinHtfBars
        /\ Gt(close[n - 1], inds["sma_200"][n - 1])
        /\ Gt(inds["sma_20"][n - 1], inds["sma_50"][n - 1])
        /\ Ge(inds["roc"][n], cfg.roc_min_long)
        /\ LET atr_pct == FDiv(inds["atr"][n], close[n])
           IN  Le(cfg.atr_min_pct, atr_pct) /\ Le(atr_pct, cfg.atr_max_pct)

ExpectedLong(closed, cfg, instrument) ==
    LET entry == V(LastRow(closed).close)
        atr_value == compute_indicators(closed, cfg)["atr"][Len(closed)]
        sl == FSub(entry, FDivInt(FScale(atr_value, cfg.stop_atr_mult.n), cfg.stop_atr_mult.d))
        tp == FAdd(entry, FDivInt(FScale(FSub(entry, sl), cfg.rr_ratio.n), cfg.rr_ratio.d))
    IN  [entry_price |-> round_price(entry, instrument.min_step),
         stop_loss |-> round_price(sl, instrument.min_step),
         take_profit |-> round_price(tp, instrument.min_step)]

\* C5: on a history on which the three rules hold for LONG, with the macro guard open
\* and no cooldown active, one evaluation emits exactly one signal: LONG, entry the
\* last closed close, stop entry - stop_atr_mult x ATR, target entry + rr_ratio x risk.
C5_RampEmitsOneLong ==
    [][(/\ result'.op = "engine_generate"
        /\ ~GuardReportsBlocked(result'.macro)
        /\ ~is_in_cooldown(signal_states, result'.symbol, now)
        /\ RulesHoldLong(get_closed_bars(FrameBars(result'.frame, now), now), config)) =>
          LET closed == get_closed_bars(FrameBars(result'.frame, now), now)
              expected == ExpectedLong(closed, config, RampInstrument)
          IN  /\ Len(result'.signals) = 1
              /\ result'.signals[1].side = "LONG"
              /\ Eq(result'.signals[1].entry_price, expected.entry_price)
              /\ Eq(result'.signals[1].stop_loss, expected.stop_loss)
              /\ Eq(result'.signals[1].take_profit, expected.take_profit)]_vars

\* C15: an evaluation that emits no signal hands its caller a reason string that
\* identifies the gate which suppressed the signal, not a bare empty result.
C15_SuppressedReturnsReason ==
    result.op \in CheckOps /\ result.gate # "emitted" =>
        /\ "reason" \in DOMAIN result.returned
        /\ result.returned # NoSignal


-----------------------------------------------------------------------------
(* SignalManager, app/rules.py *)

\* rules.Signal as the manager uses it: a new signal is ACTIVE with no bars counted
ManagedSignal(id, symbol, side, stop_loss, take_profit) ==
    [id |-> id, symbol |-> symbol, side |-> side, stop_loss |-> stop_loss,
     take_profit |-> take_profit, status |-> "ACTIVE", bars_since_entry |-> 0]

\* a cooldown with no minutes added to its start
manager_never_in_cooldown(periods, symbol, t, cfg) ==
    symbol \in DOMAIN periods /\ t < periods[symbol]

\* SignalManager._is_in_cooldown
manager_is_in_cooldown(periods, symbol, t, cfg) ==
    IF symbol \notin DOMAIN periods THEN FALSE
    ELSE t < periods[symbol] + cfg.cooldown_minutes

\* a limit that lets one signal too many in
limit_exceeded(active, cfg) == Cardinality(DOMAIN active) > cfg.max_open_signals

\* len(self.active_signals) >= self.max_open_signals
limit_reached(active, cfg) == Cardinality(DOMAIN active) >= cfg.max_open_signals

\* SignalManager.add_signal: the value returned and the three collections afterwards
add_signal(active, history, periods, signal, t, cfg) ==
    IF limit_reached(active, cfg) \/ manager_is_in_cooldown(periods, signal.symbol, t, cfg)
    THEN [accepted |-> FALSE, active_signals |-> active, signal_history |-> history,
          cooldown_periods |-> periods]
    ELSE [accepted |-> TRUE,
          active_signals |-> Put(active, signal.id, signal),
          signal_history |-> Append(history, signal.id),
          cooldown_periods |-> Put(periods, signal.symbol, t)]

\* a signal closed by time as soon as a bar has been counted
time_stop_after_one_bar(signal, frame, cfg) ==
    LET bar == LastRow(frame)
    IN  IF signal.side = "LONG" /\ bar.low <= signal.stop_loss THEN "HIT_SL"
        ELSE IF signal.side = "LONG" /\ bar.high >= signal.take_profit THEN "HIT_TP"
        ELSE IF signal.side # "LONG" /\ bar.high >= signal.stop_loss THEN "HIT_SL"
        ELSE IF signal.side # "LONG" /\ bar.low <= signal.take_profit THEN "HIT_TP"
        ELSE IF signal.bars_since_entry >= 1 THEN "TIME_STOP"
        ELSE "NONE"

\* SignalManager._check_exit_conditions on the last bar of a frame that is not empty
check_exit_conditions(signal, frame, cfg) ==
    LET bar == LastRow(frame)
    IN  IF signal.side = "LONG" /\ bar.low <= signal.stop_loss THEN "HIT_SL"
        ELSE IF signal.side = "LONG" /\ bar.high >= signal.take_profit THEN "HIT_TP"
        ELSE IF signal.side # "LONG" /\ bar.high >= signal.stop_loss THEN "HIT_SL"
        ELSE IF signal.side # "LONG" /\ bar.low <= signal.take_profit THEN "HIT_TP"
        ELSE IF signal.bars_since_entry >= cfg.time_stop_bars THEN "TIME_STOP"
        ELSE "NONE"

\* the signals update_signals looks at: data for the symbol, and not an empty frame
Updated(active, current_data) ==
    {id \in DOMAIN active : /\ active[id].symbol \in DOMAIN current_data
                            /\ Len(current_data[active[id].symbol]) > 0}

ExitReason(active, current_data, cfg, id) ==
    IF id \in Updated(active, current_data)
    THEN check_exit_conditions(active[id], current_data[active[id].symbol], cfg)
    ELSE "NONE"

\* ids in the order of insertion
InOrder(ids, last) == SelectSeq([i \in 1..last |-> i], LAMBDA i : i \in ids)

\* SignalManager.update_signals: the closed signals returned and the active ones kept
update_signals(active, current_data, cfg, last) ==
    LET closing == {id \in DOMAIN active : ExitReason(active, current_data, cfg, id) # "NONE"}
        order == InOrder(closing, last)
    IN  [closed |-> [k \in 1..Len(order) |->
                        [active[order[k]] EXCEPT
                            !.status = ExitReason(active, current_data, cfg, order[k])]],
         active_signals |->
            [id \in DOMAIN active \ closing |->
                IF id \in Updated(active, current_data)
                THEN [active[id] EXCEPT !.bars_since_entry = @ + 1]
                ELSE active[id]]]

-----------------------------------------------------------------------------
(* Specification of the signal manager: signals for two symbols are        *)
(* offered, frames of current data are supplied, and the clock advances.   *)

\* the number of signals offered to the manager and accepted by it
MaxSignals == 3
\* the manager's clock stops at MaxMinutes
MaxMinutes == 2

ManagerConfigs ==
    [max_open_signals : {1, 2}, cooldown_minutes : {0, 2}, time_stop_bars : {2}]

\* last bars that leave both levels alone or reach the lower one, which is the stop
\* loss of a LONG and the take profit of a SHORT
CurrentBars ==
    {Bar(0, 100, 101, 99, 100, NaN), Bar(0, 95, 101, 95, 95, NaN)}

CurrentFrames == {<<>>} \cup {<<bar>> : bar \in CurrentBars}

CurrentData == UNION {[symbols -> CurrentFrames] : symbols \in SUBSET Symbols}

\* a LONG has its stop at 95 and its target at 110, a SHORT the other way round
OfferedSignal(id, symbol, side) ==
    IF side = "LONG" THEN ManagedSignal(id, symbol, side, 95, 110)
    ELSE ManagedSignal(id, symbol, side, 110, 95)

InitManager ==
    /\ now = 0
    /\ signal_states = EmptyDict
    /\ last_signals = EmptyDict
    /\ result = NoResult
    /\ config \in ManagerConfigs
    /\ df = <<>>
    /\ indicators = EmptyDict
    /\ IdleManagers

ManagerTick ==
    /\ now < MaxMinutes
    /\ now' = now + 1
    /\ result' = [op |-> "tick"]
    /\ UNCHANGED <<signal_states, last_signals, config, df, indicators>>
    /\ UNCHANGED manager_vars

\* SignalManager.add_signal(signal)
AddSignal(symbol, side) ==
    LET signal == OfferedSignal(Len(signal_history) + 1, symbol, side)
        out == add_signal(active_signals, signal_history, cooldown_periods, signal, now, config)
    IN  /\ Len(signal_history) < MaxSignals
        /\ active_signals' = out.active_signals
        /\ signal_history' = out.signal_history
        /\ cooldown_periods' = out.cooldown_periods
        /\ result' = [op |-> "add_signal", signal |-> signal, accepted |-> out.accepted]
        /\ UNCHANGED <<now, signal_states, last_signals, config, df, indicators, active_positions>>

\* SignalManager.update_signals(current_data)
UpdateSignals(current_data) ==
    LET out == update_signals(active_signals, current_data, config, MaxSignals)
    IN  /\ active_signals' = out.active_signals
        /\ result' = [op |-> "update_signals", closed |-> out.closed]
        /\ UNCHANGED <<now, signal_states, last_signals, config, df, indicators>>
        /\ UNCHANGED <<signal_history, cooldown_periods, active_positions>>

NextManager ==
    \/ ManagerTick
    \/ \E symbol \in Symbols, side \in Sides : AddSignal(symbol, side)
    \/ \E current_data \in CurrentData : UpdateSignals(current_data)

SpecManager == InitManager /\ [][NextManager]_vars

\* C22: the manager never holds more than max_open_signals active signals, and an
\* add_signal made while the limit is reached returns False and changes neither the
\* active set, the history nor the cooldown table.
C22_OpenSignalsLimited ==
    [][/\ Cardinality(DOMAIN active_signals') <= config.max_open_signals
       /\ (result'.op = "add_signal" /\ limit_reached(active_signals, config)) =>
              /\ ~result'.accepted
              /\ UNCHANGED <<active_signals, signal_history, cooldown_periods>>]_vars

\* an add_signal has just been turned away by a manager that is full
C22_Witness ==
    /\ result.op = "add_signal"
    /\ ~result.accepted
    /\ Cardinality(DOMAIN active_signals) = config.max_open_signals
    /\ config.max_open_signals = 2
    /\ result.signal.symbol \notin DOMAIN cooldown_periods

\* the symbol has an accepted signal less than cooldown_minutes old
WithinCooldown(symbol) ==
    /\ symbol \in DOMAIN cooldown_periods
    /\ now - cooldown_periods[symbol] < config.cooldown_minutes

\* C23: after add_signal has accepted a signal for a symbol, every add_signal for
\* that symbol, of either side, made within cooldown_minutes is rejected, and the
\* symbol is reported as in cooldown.
C23_CooldownRejectsSymbol ==
    [][(result'.op = "add_signal" /\ WithinCooldown(result'.signal.symbol)) =>
          /\ ~result'.accepted
          /\ manager_is_in_cooldown(cooldown_periods, result'.signal.symbol, now, config)]_vars

\* a signal of the other side was turned away although the manager had room
C23_Witness ==
    /\ result.op = "add_signal"
    /\ ~result.accepted
    /\ ~limit_reached(active_signals, config)
    /\ WithinCooldown(result.signal.symbol)
    /\ \E id \in DOMAIN active_signals :
          /\ active_signals[id].symbol = result.signal.symbol
          /\ active_signals[id].side # result.signal.side

\* C24: once update_signals has closed a symbol's signal, the manager accepts a new
\* signal for that symbol straight away and tracks it.
C24_AcceptAfterClose ==
    [][(/\ result.op = "update_signals"
        /\ result'.op = "add_signal"
        /\ \E k \in 1..Len(result.closed) : result.closed[k].symbol = result'.signal.symbol
        /\ ~limit_reached(active_signals, config)) =>
          /\ result'.accepted
          /\ result'.signal.id \in DOMAIN active_signals']_vars

\* neither the stop loss nor the take profit is reached by the frame's last bar
Untouched(signal, frame) ==
    IF signal.side = "LONG"
    THEN LastRow(frame).low > signal.stop_loss /\ LastRow(frame).high < signal.take_profit
    ELSE LastRow(frame).high < signal.stop_loss /\ LastRow(frame).low > signal.take_profit

\* what an update does to an active signal that has data and is not touched
CountedOrTimeStopped(id) ==
    IF active_signals[id].bars_since_entry >= config.time_stop_bars
    THEN /\ id \notin DOMAIN active_signals'
         /\ \E k \in 1..Len(result'.closed) :
               result'.closed[k].id = id /\ result'.closed[k].status = "TIME_STOP"
    ELSE /\ id \in DOMAIN active_signals'
         /\ active_signals'[id].bars_since_entry = active_signals[id].bars_since_entry + 1

\* current data whose bars stay between the stop loss and the take profit
QuietData ==
    UNION {[symbols -> {<<>>, <<Bar(0, 100, 101, 99, 100, NaN)>>}] : symbols \in SUBSET Symbols}

\* a manager without a cooldown, so that signals can follow one another at once
InitTimeStop ==
    /\ now = 0
    /\ signal_states = EmptyDict
    /\ last_signals = EmptyDict
    /\ result = NoResult
    /\ config \in [max_open_signals : {1, 2}, cooldown_minutes : {0}, time_stop_bars : {1, 2}]
    /\ df = <<>>
    /\ indicators = EmptyDict
    /\ IdleManagers

NextTimeStop ==
    \/ \E symbol \in Symbols, side \in Sides : AddSignal(symbol, side)
    \/ \E current_data \in QuietData : UpdateSignals(current_data)

\* an update that supplies data for the symbol
UpdateWithDataFor(symbol) ==
    \E current_data \in QuietData :
        /\ symbol \in DOMAIN current_data
        /\ Len(current_data[symbol]) > 0
        /\ UpdateSignals(current_data)

\* prices stay away from every stop loss and take profit, and the caller keeps
\* updating every symbol
SpecTimeStop ==
    /\ InitTimeStop
    /\ [][NextTimeStop]_vars
    /\ \A symbol \in Symbols : WF_vars(UpdateWithDataFor(symbol))

ClosedAs(id, status) ==
    /\ result.op = "update_signals"
    /\ \E k \in 1..Len(result.closed) :
          result.closed[k].id = id /\ result.closed[k].status = status

\* C25: an active signal whose stop loss and take profit are never touched counts
\* exactly one more bar on every update that has data for its symbol, is closed and
\* removed by the update that finds bars_since_entry at time_stop_bars, and so is
\* eventually closed with status TIME_STOP.
C25_TimeStopCloses ==
    /\ [][\A current_data \in QuietData : UpdateSignals(current_data) =>
            \A id \in Updated(active_signals, current_data) :
                Untouched(active_signals[id], current_data[active_signals[id].symbol]) =>
                    CountedOrTimeStopped(id)]_vars
    /\ \A id \in 1..MaxSignals :
          (id \in DOMAIN active_signals) ~> ClosedAs(id, "TIME_STOP")

\* an update has just closed a signal as TIME_STOP after counting time_stop_bars bars
C25_Witness ==
    /\ result.op = "update_signals"
    /\ \E k \in 1..Len(result.closed) :
          /\ result.closed[k].status = "TIME_STOP"
          /\ result.closed[k].bars_since_entry = config.time_stop_bars

-----------------------------------------------------------------------------
(* RiskManager, app/sizing.py.  A string is modelled as the tuple of the   *)
(* parts it is formatted from, so that a signal id and a symbol are equal  *)
(* only when they are the same text.  The clock counts days.               *)

MaxHoldHours == 24

\* f"{symbol}_{side}_{datetime.now().strftime('%Y%m%d_%H%M%S')}"
EngineSignalId(symbol, side, t) == <<symbol, side, t>>
\* the symbol as a dictionary key
SymbolKey(symbol) == <<symbol>>

\* datetime.now().date()
Date(t) == t
\* (datetime.now() - entry_time).total_seconds() / 3600
HoursSince(entry_time, t) == 24 * (t - entry_time)

\* Account.reset_daily_stats at time t
reset_daily_stats_at(account, t) ==
    [reset_daily_stats(account, Date(t) # account.last_reset_date)
        EXCEPT !.last_reset_date = Date(t)]

DailyLossLimit(account) == FNeg(FMul(account.equity, account.max_daily_loss_pct))

\* Account.can_trade, after reset_daily_stats
can_trade(account) ==
    IF Le(account.daily_pnl, DailyLossLimit(account))
    THEN [can_trade |-> FALSE, reason |-> "Daily loss limit reached"]
    ELSE [can_trade |-> TRUE, reason |-> "Account can trade"]

\* RiskManager.validate_signal, for an account whose daily statistics are up to date
validate_signal(positions, signal, instrument, account) ==
    LET plan == calculate_position_size(signal, instrument, account)
    IN  IF ~can_trade(account).can_trade
        THEN [is_valid |-> FALSE, reason |-> can_trade(account).reason]
        ELSE IF Cardinality(DOMAIN positions) >= account.max_open_signals
        THEN [is_valid |-> FALSE, reason |-> "Maximum open signals reached"]
        ELSE IF SymbolKey(signal.symbol) \in DOMAIN positions
        THEN [is_valid |-> FALSE, reason |-> "Already have position"]
        ELSE IF Le(plan.size_units, V(0))
        THEN [is_valid |-> FALSE, reason |-> "Invalid position size calculated"]
        ELSE IF Gt(plan.risk_pct, FMul(FScale(account.risk_per_trade_pct, 100), Num(11, 10)))
        THEN [is_valid |-> FALSE, reason |-> "Risk too high"]
        ELSE IF Gt(plan.leverage, FMul(instrument.leverage, Num(11, 10)))
        THEN [is_valid |-> FALSE, reason |-> "Leverage too high"]
        ELSE [is_valid |-> TRUE, reason |-> "Signal validated"]

\* RiskManager.add_position at time t
add_position(positions, signal, position_plan, t) ==
    [id \in DOMAIN positions \cup {signal.id} |->
        IF id = signal.id
        THEN [signal |-> signal, size_units |-> position_plan.size_units,
              value_per_point |-> position_plan.value_per_point, entry_time |-> t]
        ELSE positions[id]]

\* RiskManager._check_position_exit at time t
check_position_exit(position, current_price, t) ==
    LET signal == position.signal
    IN  IF signal.side = "LONG" /\ Le(current_price, signal.stop_loss) THEN "HIT_SL"
        ELSE IF signal.side = "LONG" /\ Ge(current_price, signal.take_profit) THEN "HIT_TP"
        ELSE IF signal.side # "LONG" /\ Ge(current_price, signal.stop_loss) THEN "HIT_SL"
        ELSE IF signal.side # "LONG" /\ Le(current_price, signal.take_profit) THEN "HIT_TP"
        ELSE IF HoursSince(position.entry_time, t) > MaxHoldHours THEN "TIME_STOP"
        ELSE "NONE"

\* current_pnl of a position at a price
CurrentPnl(position, current_price) ==
    LET signal == position.signal
        pnl_per_unit == IF signal.side = "LONG" THEN FSub(current_price, signal.entry_price)
                        ELSE FSub(signal.entry_price, current_price)
    IN  FMul(FMul(pnl_per_unit, position.size_units), position.value_per_point)

\* the positions an update closes
Closing(positions, current_prices, t) ==
    {id \in DOMAIN positions :
        /\ positions[id].signal.symbol \in DOMAIN current_prices
        /\ check_position_exit(positions[id],
                               current_prices[positions[id].signal.symbol], t) # "NONE"}

RECURSIVE SumPnl(_, _, _)
SumPnl(positions, current_prices, ids) ==
    IF ids = {} THEN V(0)
    ELSE LET id == CHOOSE i \in ids : TRUE
         IN  FAdd(CurrentPnl(positions[id], current_prices[positions[id].signal.symbol]),
                  SumPnl(positions, current_prices, ids \ {id}))

\* RiskManager.update_positions at time t: the closed positions, the positions kept
\* and the account's daily profit and loss
update_positions(positions, current_prices, account, t) ==
    LET closing == Closing(positions, current_prices, t)
    IN  [closed |-> {[id |-> id, symbol |-> positions[id].signal.symbol,
                      exit_reason |-> check_position_exit(positions[id],
                                         current_prices[positions[id].signal.symbol], t),
                      final_pnl |-> CurrentPnl(positions[id],
                                         current_prices[positions[id].signal.symbol])] :
                        id \in closing},
         active_positions |-> [id \in DOMAIN positions \ closing |-> positions[id]],
         daily_pnl |-> FAdd(account.daily_pnl, SumPnl(positions, current_prices, closing))]

-----------------------------------------------------------------------------
(* Specification of the risk manager: signals at entry 100 are validated   *)
(* and, when valid, sized and added as positions; prices are supplied and  *)
(* close positions; the clock advances over three days.                      *)

\* the clock stops at MaxDays
MaxDays == 2
\* the daily profit and loss stays within MaxDailyPnl of zero
MaxDailyPnl == 200

RiskAccounts ==
    [equity : {V(10000)}, risk_per_trade_pct : {Num(8, 1000)},
     max_daily_loss_pct : {Num(1, 100)}, daily_pnl : {V(0)},
     max_open_signals : {2}, last_reset_date : {0}]

RiskInstrument ==
    SizingInstrument("index", V(1), V(1)) @@ [leverage |-> V(100)]

\* ids as the engine makes them, and the bare symbol a caller may use as id
RiskSignalIds(symbol, side, t) == {EngineSignalId(symbol, side, t), SymbolKey(symbol)}

RiskSignal(id, symbol, side) ==
    [id |-> id, symbol |-> symbol, side |-> side, entry_price |-> V(100),
     stop_loss |-> IF side = "LONG" THEN V(95) ELSE V(105),
     take_profit |-> IF side = "LONG" THEN V(110) ELSE V(90)]

\* prices beyond the lower levels, at the entry, and beyond the upper levels
CurrentPrices == UNION {[symbols -> {V(90), V(100), V(110)}] : symbols \in SUBSET Symbols}

InitRisk ==
    /\ now = 0
    /\ signal_states = EmptyDict
    /\ last_signals = EmptyDict
    /\ result = NoResult
    /\ config \in [account : RiskAccounts]
    /\ df = <<>>
    /\ indicators = EmptyDict
    /\ IdleManagers

RiskTick ==
    /\ now < MaxDays
    /\ now' = now + 1
    /\ UNCHANGED <<signal_states, last_signals, result, config, df, indicators>>
    /\ UNCHANGED manager_vars

\* the caller's handling of a signal: validate it; when valid, size it and add the
\* position
ProcessSignal(symbol, side, id) ==
    /\ \E signal \in {RiskSignal(id, symbol, side)} :
       \E account \in {reset_daily_stats_at(config.account, now)} :
       \E verdict \in {validate_signal(active_positions, signal, RiskInstrument, account)} :
       \E plan \in {calculate_position_size(signal, RiskInstrument, account)} :
           /\ config' = [config EXCEPT !.account = account]
           /\ active_positions' = IF verdict.is_valid
                                  THEN add_position(active_positions, signal, plan, now)
                                  ELSE active_positions
           /\ result' = [op |-> "validate_signal", signal |-> signal,
                         is_valid |-> verdict.is_valid, reason |-> verdict.reason,
                         can_trade |-> can_trade(account).can_trade]
        /\ UNCHANGED <<now, signal_states, last_signals, df, indicators>>
        /\ UNCHANGED <<active_signals, signal_history, cooldown_periods>>

UpdatePositions(current_prices) ==
    /\ \E out \in {update_positions(active_positions, current_prices, config.account, now)} :
           /\ Le(FAbs(out.daily_pnl), V(MaxDailyPnl))
           /\ active_positions' = out.active_positions
           /\ config' = [config EXCEPT !.account.daily_pnl = out.daily_pnl]
           /\ result' = [op |-> "update_positions", closed |-> out.closed]
        /\ UNCHANGED <<now, signal_states, last_signals, df, indicators>>
        /\ UNCHANGED <<active_signals, signal_history, cooldown_periods>>

NextRisk ==
    \/ RiskTick
    \/ \E symbol \in Symbols, side \in Sides :
          \E id \in RiskSignalIds(symbol, side, now) : ProcessSignal(symbol, side, id)
    \/ \E current_prices \in CurrentPrices : UpdatePositions(current_prices)

SpecRisk == InitRisk /\ [][NextRisk]_vars

\* positions open for the symbol
OpenFor(positions, symbol) ==
    {id \in DOMAIN positions : positions[id].signal.symbol = symbol}

\* C26: the risk manager never holds two open positions for the same symbol, and
\* while a position for a symbol is open validate_signal rejects every further
\* signal for that symbol, whatever its id or side, with the reason "Already have
\* position" (unless an earlier check has already turned it away).
C26_OnePositionPerSymbol ==
    [][/\ \A symbol \in Symbols : Cardinality(OpenFor(active_positions', symbol)) <= 1
       /\ (/\ result'.op = "validate_signal"
           /\ result' # result
           /\ OpenFor(active_positions, result'.signal.symbol) # {}) =>
              /\ ~result'.is_valid
              /\ result'.reason \in {"Already have position", "Daily loss limit reached",
                                     "Maximum open signals reached"}]_vars

\* the account's realised loss of the day is at or beyond the limit
LossLimitReached(account) == Le(account.daily_pnl, DailyLossLimit(account))

\* C27: once the realised daily profit and loss is at or below -equity *
\* max_daily_loss_pct, can_trade is false and validate_signal rejects every signal
\* with the daily loss limit as reason, and this lasts until the calendar date
\* changes.
C27_LossLimitLatches ==
    [][(LossLimitReached(config.account) /\ Date(now') = config.account.last_reset_date) =>
          /\ LossLimitReached(config'.account)
          /\ result'.op = "validate_signal" /\ result' # result =>
                /\ ~result'.can_trade
                /\ ~result'.is_valid
                /\ result'.reason = "Daily loss limit reached"]_vars

-----------------------------------------------------------------------------
(* Alert de-duplication of SignalEngine, app/signal_engine.py *)

MinIntervalSeconds == 300

\* (signal.timestamp - state.last_signal_time).total_seconds(), the clock in minutes
SecondsBetween(earlier, later) == 60 * (later - earlier)

\* the state's fingerprint differs from the signal's levels: Python's != on floats
LevelsDiffer(state, signal) ==
    \/ ~Eq(state.last_entry_price, signal.entry_price)
    \/ ~Eq(state.last_stop_loss, signal.stop_loss)
    \/ ~Eq(state.last_take_profit, signal.take_profit)

\* an alert filter that looks at the time only
should_send_by_time_only(states, signal) ==
    \/ signal.symbol \notin DOMAIN states
    \/ SecondsBetween(states[signal.symbol].last_signal_time, signal.timestamp)
            >= MinIntervalSeconds

\* SignalEngine.should_send_alert
should_send_alert(states, signal) ==
    IF signal.symbol \notin DOMAIN states THEN TRUE
    ELSE IF LevelsDiffer(states[signal.symbol], signal) THEN TRUE
    ELSE SecondsBetween(states[signal.symbol].last_signal_time, signal.timestamp)
            >= MinIntervalSeconds

-----------------------------------------------------------------------------
(* Specification of the alert filter: the engine emits signals for one of  *)
(* two symbols, the clock advances, and signals for both symbols are put   *)
(* to should_send_alert: the one just emitted, and signals stamped now or  *)
(* at time 0 with the levels the engine computes or with one level moved.  *)

\* the clock stops at MaxAlertMinutes
MaxAlertMinutes == 6

\* the signal the engine makes for the symbol and side at time t
EngineSignal(symbol, side, t) ==
    EngineOutcome(EmptyDict, t, Passing(symbol, side), LifecycleConfig).signal

AlertCandidates(t) ==
    UNION {LET signal == EngineSignal(symbol, side, stamp)
           IN  {signal,
                [signal EXCEPT !.entry_price = FAdd(@, V(1))],
                [signal EXCEPT !.stop_loss = FAdd(@, V(1))],
                [signal EXCEPT !.take_profit = FAdd(@, V(1))]} :
              symbol \in Symbols, side \in Sides, stamp \in {0, t}}

AlertTick ==
    /\ now < MaxAlertMinutes
    /\ now' = now + 1
    /\ result' = [op |-> "tick"]
    /\ UNCHANGED <<signal_states, last_signals, config, df, indicators>>
    /\ UNCHANGED manager_vars

\* the signals returned by the call before, when it was an evaluation of the engine
JustReturned ==
    IF result.op = "engine_check" THEN {result.signals[k] : k \in 1..Len(result.signals)}
    ELSE {}

ShouldSendAlert(signal) ==
    /\ result' = [op |-> "should_send_alert", signal |-> signal,
                  fresh |-> signal \in JustReturned,
                  send |-> should_send_alert(signal_states, signal)]
    /\ UNCHANGED <<now, signal_states, last_signals, config, df, indicators>>
    /\ UNCHANGED manager_vars

NextAlerts ==
    \/ AlertTick
    \/ \E side \in Sides : EngineCheck(Passing("EURUSD", side))
    \/ \E signal \in AlertCandidates(now) \cup JustReturned : ShouldSendAlert(signal)

SpecAlerts == InitLifecycle /\ [][NextAlerts]_vars

\* C28: should_send_alert returns False for a signal whose entry, stop loss and take
\* profit all equal the fingerprint recorded for its symbol and whose timestamp is
\* less than 300 seconds after the recorded signal time; it returns True when there
\* is no state for the symbol or when one of the three levels differs.
C28_DuplicateWithinInterval ==
    result.op = "should_send_alert" =>
        LET signal == result.signal
        IN  IF signal.symbol \notin DOMAIN signal_states THEN result.send
            ELSE LET state == signal_states[signal.symbol]
                 IN  /\ LevelsDiffer(state, signal) => result.send
                     /\ (/\ ~LevelsDiffer(state, signal)
                         /\ SecondsBetween(state.last_signal_time, signal.timestamp)
                                < MinIntervalSeconds) => ~result.send

\* a signal with the recorded levels was held back four minutes after the recorded one
C28_Witness ==
    /\ result.op = "should_send_alert"
    /\ ~result.send
    /\ result.signal.symbol \in DOMAIN signal_states
    /\ ~LevelsDiffer(signal_states[result.signal.symbol], result.signal)
    /\ SecondsBetween(signal_states[result.signal.symbol].last_signal_time,
                      result.signal.timestamp) = 240

\* C30: a signal just returned by the engine is approved by should_send_alert when
\* it is checked immediately afterwards.
C30_FreshSignalApproved ==
    (result.op = "should_send_alert" /\ result.fresh) => result.send

-----------------------------------------------------------------------------
(* BacktestEngine.run_backtest, app/backtest.py: the bar data of each date *)
(* is put through SignalGenerator, RiskManager.validate_signal, the sizer, *)
(* add_position and update_positions by a freshly built engine.  The data  *)
(* of a date is given by the indicator values it leads to and its last     *)
(* close.                                                                  *)

\* generate_signals on the data of a date: both sides are evaluated
SignalsForDate(day, t, cfg) ==
    SignalsOf(<<GeneratorOutcome(t, [day EXCEPT !.side = "LONG"], cfg.rules),
                GeneratorOutcome(t, [day EXCEPT !.side = "SHORT"], cfg.rules)>>)

\* run_backtest's handling of one signal: account and positions afterwards
Processed(book, signal, instrument, t) ==
    LET account == reset_daily_stats_at(book.account, t)
    IN  [account |-> account,
         positions |->
            IF validate_signal(book.positions, signal, instrument, account).is_valid
            THEN add_position(book.positions, signal,
                              calculate_position_size(signal, instrument, account), t)
            ELSE book.positions]

\* run_backtest's handling of the signals of a date, at most one per side
ProcessSignals(signals, book, instrument, t) ==
    IF Len(signals) = 0 THEN book
    ELSE IF Len(signals) = 1 THEN Processed(book, signals[1], instrument, t)
    ELSE Processed(Processed(book, signals[1], instrument, t), signals[2], instrument, t)

\* a closed position as run_backtest records it, without the two wall-clock stamps
Trade(positions, closed, exit_price) ==
    [symbol |-> closed.symbol, side |-> positions[closed.id].signal.side,
     entry_price |-> positions[closed.id].signal.entry_price, exit_price |-> exit_price,
     size |-> positions[closed.id].size_units, pnl |-> closed.final_pnl,
     exit_reason |-> closed.exit_reason]

\* current_equity: the initial capital and get_portfolio_summary()['total_pnl'], the
\* current_pnl of the positions still open
CurrentEquity(initial_capital, positions, current_prices) ==
    FAdd(initial_capital, SumPnl(positions, current_prices, DOMAIN positions))

-----------------------------------------------------------------------------
(* Specification of the replay: bar data of two dates is fixed, and two    *)
(* fresh engines run the backtest over it one after the other, while the   *)
(* wall clock advances or stands still between the dates.                  *)

\* the number of dates in the data
ReplayDates == 2

ReplayCloses == {98, 100, 102}

\* a date on which the rules pass for a LONG at the close (ATR 2/3: stop 1 below,
\* target 2 above), and a date without a trend
ReplayDays ==
    {[Passing("EURUSD", "LONG") EXCEPT !.close = close, !.trend = trend, !.atr = Num(2, 3)] :
        close \in ReplayCloses, trend \in {"up", "missing"}}

ReplayData == [1..ReplayDates -> ReplayDays]

InitReplay ==
    /\ now = 0
    /\ signal_states = EmptyDict
    /\ last_signals = EmptyDict
    /\ result = NoResult
    /\ config \in [rules : {DefaultConfig}, account : RiskAccounts]
    /\ df \in ReplayData
    /\ indicators = EmptyDict
    /\ IdleManagers

ReplayTick ==
    /\ now < MaxDays
    /\ now' = now + 1
    /\ UNCHANGED <<signal_states, last_signals, result, config, df, indicators>>
    /\ UNCHANGED manager_vars

\* what a finished run returns
Outcome29 == [trades |-> result.trades, final_capital |-> result.final_capital]

RunFinished == result.op = "run_backtest" /\ result.date = Len(df)

\* run_backtest begins: Account and RiskManager are built anew
StartBacktest ==
    /\ result.op = "none" \/ (RunFinished /\ result.previous = {})
    /\ active_positions' = EmptyDict
    /\ config' = [config EXCEPT !.account.daily_pnl = V(0),
                                !.account.last_reset_date = Date(now)]
    /\ result' = [op |-> "run_backtest", date |-> 0, trades |-> <<>>,
                  final_capital |-> config.account.equity,
                  previous |-> IF RunFinished THEN {Outcome29} ELSE {}]
    /\ UNCHANGED <<now, signal_states, last_signals, df, indicators>>
    /\ UNCHANGED <<active_signals, signal_history, cooldown_periods>>

\* one pass of run_backtest's loop over the dates
BacktestDate ==
    /\ result.op = "run_backtest"
    /\ result.date < Len(df)
    /\ \E day \in {df[result.date + 1]} :
       \E signals \in {SignalsForDate(day, now, config)} :
       \E added \in {ProcessSignals(signals,
                                    [account |-> config.account, positions |-> active_positions],
                                    RiskInstrument, now)} :
       \E current_prices \in {[symbol \in {day.symbol} |-> V(day.close)]} :
       \E out \in {update_positions(added.positions, current_prices, added.account, now)} :
           /\ active_positions' = out.active_positions
           /\ config' = [config EXCEPT !.account = [added.account EXCEPT
                                                       !.daily_pnl = out.daily_pnl]]
           /\ result' = [result EXCEPT
                           !.date = @ + 1,
                           !.trades = Append(@, {Trade(added.positions, closed, V(day.close)) :
                                                    closed \in out.closed}),
                           !.final_capital = CurrentEquity(config.account.equity,
                                                out.active_positions, current_prices)]
    /\ UNCHANGED <<now, signal_states, last_signals, df, indicators>>
    /\ UNCHANGED <<active_signals, signal_history, cooldown_periods>>

NextReplay == ReplayTick \/ StartBacktest \/ BacktestDate

SpecReplay == InitReplay /\ [][NextReplay]_vars

\* C29: replaying identical bar data through fresh engines yields identical results
\* (the same trades and the same final capital), whatever the wall-clock times of
\* the two runs.
C29_ReplayDeterministic ==
    RunFinished => \A previous \in result.previous : Outcome29 = previous

====
